---- MODULE Spec2Model ----
(***************************************************************************)
(* Conjugation extraction and normalisation pipeline of the Academie       *)
(* francaise verb crawler: conjugation_parser.py (voice locator, auxiliary *)
(* resolver, mood/tense decoder, person-form composers),                   *)
(* data_transformer.py (key/schema normaliser, reform-variant synthesiser) *)
(* and the crawler loop of crawler.py / core.py that drives them.          *)
(*                                                                         *)
(* Text is modelled as a sequence of one-character strings, so that strip, *)
(* lower, replace, split and join are computed character by character.     *)
(* A character outside ASCII is written as its HTML entity: "&eacute;",    *)
(* "&ecirc;", "&icirc;", "&ucirc;" and "&rsquo;" (the curly apostrophe)    *)
(* are one character each.                                                 *)
(* An optional markup element is a sequence of length 0 (find() returned   *)
(* None) or 1 (the element).  A Python dict is a function whose domain is  *)
(* its key set.                                                            *)
(***************************************************************************)
EXTENDS Integers, Sequences, FiniteSets, TLC

VARIABLES
    verb,        \* the infinitive handed to the pipeline
    page,        \* the markup rooted at div#<entry id>
    pc,          \* position of the pipeline for this verb
    parsed,      \* outcome of parse_conjugation_table
    normalized,  \* outcome of transform_verb_data on the parsed record
    reformed,    \* outcome of create_reformed_verb_entry
    renormalized,\* outcome of transform_verb_data on its own output
    infFile,     \* crawler: the lines of ./infinitives.txt
    ignoreCache, \* crawler: gl.CONFIG_IGNORE_CACHE of the current run
    todo,        \* crawler: lines of infinitives.txt not yet visited
    cacheTxt,    \* crawler: content of ./output/cache/<verb>.txt, per verb
    htmlFile,    \* crawler: ./output/cache/<verb>.html, per verb
    parsedFile,  \* crawler: content of ./output/parsed/<verb>.txt, per verb
    prog,        \* crawler: "idle", "running", "done", or "crashed" when an
                 \* exception left main() uncaught
    maxRetry,    \* crawler: gl.CONFIG_MAX_RETRY of the current run
    last,        \* crawler: what the last pass of the loop of main() did:
                 \* its verb, what the cache lookup found, the search made,
                 \* whether a download and a parse were attempted
    db,          \* crawler: ./output/verbs.db, optional: its tables
    gen          \* -E:GEN-INFINITIVES: the state of gen_infs_main

vars == <<verb, page, pc, parsed, normalized, reformed, renormalized,
          infFile, ignoreCache, todo, cacheTxt, htmlFile, parsedFile, prog,
          maxRetry, last, db, gen>>

pipeVars  == <<verb, page, pc, parsed, normalized, reformed, renormalized>>
mainVars  == <<infFile, ignoreCache, todo, cacheTxt, htmlFile, parsedFile, prog,
               maxRetry, last, db>>
crawlVars == <<infFile, ignoreCache, todo, cacheTxt, htmlFile, parsedFile, prog,
               maxRetry, last, db, gen>>

----------------------------------------------------------------------------
(* Bounds of the model *)

\* longest generated infinitive
MaxInfLen == 3
\* most rows in a generated tense table
MaxRows == 2
\* most tense blocks in the generic active section's indicative mood
MaxTenses == 2
\* most lines in the crawler's infinitives.txt
MaxVerbs == 3
\* largest retry limit a run is configured with
MaxRetry == 2
\* most rows in a generated imperative table
MaxImpRows == 3
\* most comma-separated parts of a generated compound participle cell
MaxParts == 5
\* letters of the alphabet walked when the infinitives are generated
MaxLetters == 2
\* highest entry number of a letter that the dictionary does not answer by 404
MaxEntries == 2

----------------------------------------------------------------------------
(* Python values *)

\* Python's None where a string may stand (a string is a sequence of
\* one-character strings, so it never equals this value)
None == <<"None">>

Has(opt) == Len(opt) > 0
Get(opt) == opt[1]
Absent == <<>>
Some(x) == <<x>>

\* outcome of a call: a returned value or an uncaught exception
Ok(v) == [ok |-> TRUE, val |-> v]
Raise == [ok |-> FALSE, val |-> "exception"]

\* d[k] = v on a dict
Put(d, k, v) == [x \in (DOMAIN d) \cup {k} |-> IF x = k THEN v ELSE d[x]]
EmptyDict == [x \in {} |-> None]

----------------------------------------------------------------------------
(* str methods *)

IsSpace(c) == c \in {" ", "\n", "\t"}

RECURSIVE LStrip(_)
LStrip(s) == IF s # <<>> /\ IsSpace(Head(s)) THEN LStrip(Tail(s)) ELSE s

RECURSIVE RStrip(_)
RStrip(s) ==
    IF s # <<>> /\ IsSpace(s[Len(s)]) THEN RStrip(SubSeq(s, 1, Len(s) - 1)) ELSE s

\* (mutant of Strip: lstrip() written for strip())
Strip_LeftOnly(s) == LStrip(s)

\* str.strip()
Strip(s) == RStrip(LStrip(s))

UpperChars == <<"A","B","C","D","E","F","G","H","I","J","L","M","N","O","P","R",
                "S","T","U","V","Z","&Eacute;","&Ecirc;","&Icirc;","&Ucirc;">>
LowerChars == <<"a","b","c","d","e","f","g","h","i","j","l","m","n","o","p","r",
                "s","t","u","v","z","&eacute;","&ecirc;","&icirc;","&ucirc;">>

LowerChar(c) ==
    IF \E i \in 1..Len(UpperChars) : UpperChars[i] = c
    THEN LowerChars[CHOOSE i \in 1..Len(UpperChars) : UpperChars[i] = c]
    ELSE c

\* str.lower()
Lower(s) == [i \in 1..Len(s) |-> LowerChar(s[i])]

\* sub in s
Contains(s, sub) ==
    \E i \in 1..(Len(s) - Len(sub) + 1) : SubSeq(s, i, i + Len(sub) - 1) = sub

\* s.replace(c, to) for a one-character pattern c: every occurrence
RECURSIVE Replace(_, _, _)
Replace(s, c, to) ==
    IF s = <<>> THEN <<>>
    ELSE (IF Head(s) = c THEN to ELSE <<Head(s)>>) \o Replace(Tail(s), c, to)

\* index of the first occurrence of c in s, 0 when there is none
FirstIndex(s, c) ==
    IF \E i \in 1..Len(s) : s[i] = c
    THEN CHOOSE i \in 1..Len(s) : s[i] = c /\ \A j \in 1..(i - 1) : s[j] # c
    ELSE 0

\* s.split(c): always at least one part
RECURSIVE Split(_, _)
Split(s, c) ==
    LET i == FirstIndex(s, c)
    IN  IF i = 0 THEN <<s>>
        ELSE <<SubSeq(s, 1, i - 1)>> \o Split(SubSeq(s, i + 1, Len(s)), c)

\* sep.join(parts) for a one-character separator
RECURSIVE Join(_, _)
Join(parts, c) ==
    IF parts = <<>> THEN <<>>
    ELSE IF Len(parts) = 1 THEN parts[1]
    ELSE parts[1] \o <<c>> \o Join(Tail(parts), c)

\* reversed(parts)
Reversed(parts) == [i \in 1..Len(parts) |-> parts[Len(parts) + 1 - i]]

\* str.split() with no argument: the maximal runs of non-whitespace
RECURSIVE SplitWS(_)
SplitWS(s) ==
    LET t == LStrip(s)
        n == IF \E i \in 1..Len(t) : IsSpace(t[i])
             THEN (CHOOSE i \in 1..Len(t) :
                      IsSpace(t[i]) /\ \A j \in 1..(i - 1) : ~IsSpace(t[j])) - 1
             ELSE Len(t)
    IN  IF t = <<>> THEN <<>>
        ELSE <<SubSeq(t, 1, n)>> \o SplitWS(SubSeq(t, n + 1, Len(t)))

----------------------------------------------------------------------------
(* Literals of the source *)

\* global_vars.py: the retry limit of a run that -C:MAX-RETRY does not set
CONFIG_MAX_RETRY == 5

Apostrophe == "'"
CurlyApostrophe == "&rsquo;"

s_je    == <<"j","e">>
s_tu    == <<"t","u">>
s_il    == <<"i","l">>
s_ils   == <<"i","l","s">>
s_elle  == <<"e","l","l","e">>
s_elles == <<"e","l","l","e","s">>
s_on    == <<"o","n">>
s_nous  == <<"n","o","u","s">>
s_vous  == <<"v","o","u","s">>

\* conjugation_parser.py:77 and :79
AvoirForms == { <<"a","i">>, <<"a","s">>, <<"a">>, <<"a","v","o","n","s">>,
                <<"a","v","e","z">>, <<"o","n","t">> }
EtreForms  == { <<"s","u","i","s">>, <<"e","s">>, <<"e","s","t">>,
                <<"s","o","m","m","e","s">>, <<"&ecirc;","t","e","s">>,
                <<"s","o","n","t">> }

\* the heading searched by __guess_auxiliary: "Passe compose" with both accents
h_PasseCompose == <<"P","a","s","s","&eacute;"," ","c","o","m","p","o","s","&eacute;">>

l_present   == <<"p","r","&eacute;","s","e","n","t">>
l_passe     == <<"p","a","s","s","&eacute;">>
l_imparfait == <<"i","m","p","a","r","f","a","i","t">>
l_compose   == <<"c","o","m","p","o","s","&eacute;">>
l_simple    == <<"s","i","m","p","l","e">>
l_anterieur == <<"a","n","t","&eacute;","r","i","e","u","r">>
l_futur     == <<"f","u","t","u","r">>
l_pqp       == <<"p","l","u","s","-","q","u","e","-","p","a","r","f","a","i","t">>

\* tense_name_key_map of __parse_mood_div: <<label, key>>
TenseNameKeyMap ==
    { <<l_present, "present">>,
      <<l_passe, "passe">>,
      <<l_imparfait, "imparfait">>,
      <<l_passe \o <<" ">> \o l_compose, "passe_compose">>,
      <<l_pqp, "plus_que_parfait">>,
      <<l_futur \o <<" ">> \o l_simple, "futur_simple">>,
      <<l_futur \o <<" ">> \o l_anterieur, "futur_anterieur">>,
      <<l_passe \o <<" ">> \o l_simple, "passe_simple">>,
      <<l_passe \o <<" ">> \o l_anterieur, "passe_anterieur">> }

\* tense_name_key_map.get(name, None); "None" when the label is unknown
TenseNameKey(name) ==
    IF \E e \in TenseNameKeyMap : e[1] = name
    THEN (CHOOSE e \in TenseNameKeyMap : e[1] = name)[2]
    ELSE "None"

\* (mutant of PERSON_MAPPING: ils is given the key of il)
PERSON_MAPPING_IlsAsIl ==
    [k \in {"je", "tu", "il", "nous", "vous", "ils"} |->
        CASE k = "je"   -> "1s"
          [] k = "tu"   -> "2s"
          [] k = "il"   -> "3sm"
          [] k = "nous" -> "1p"
          [] k = "vous" -> "2p"
          [] k = "ils"  -> "3sm"]

\* PERSON_MAPPING of data_transformer.py
PERSON_MAPPING ==
    [k \in {"je", "tu", "il", "nous", "vous", "ils"} |->
        CASE k = "je"   -> "1s"
          [] k = "tu"   -> "2s"
          [] k = "il"   -> "3sm"
          [] k = "nous" -> "1p"
          [] k = "vous" -> "2p"
          [] k = "ils"  -> "3pm"]

----------------------------------------------------------------------------
(* Markup.  A row (tr.conj_line) is a record                                *)
(*   pp     : optional text of span.conj_pp                                 *)
(*   refl   : optional text of td.conj_refl-pron                            *)
(*   auxil  : optional text of td.conj_auxil                                *)
(*   verb   : optional td.conj_verb, given as the sequence of its text nodes*)
(*   rectif : optional text of span.forme_rectif                            *)
(* A tense block (div.tense) is [h4, table, rows]: the optional heading     *)
(* text, whether a table element exists, and the tr.conj_line rows.         *)
(* A voice section is [prefix, ind, sub, con, imp]: the prefix of the ids   *)
(* of its mood sections ("active" or "prono") and the four optional moods,  *)
(* each a sequence of tense blocks.                                         *)

\* Tag.stripped_strings: the non-empty stripped text nodes, in order
RECURSIVE StrippedStrings(_)
StrippedStrings(nodes) ==
    IF nodes = <<>> THEN <<>>
    ELSE (IF Strip(Head(nodes)) = <<>> THEN <<>> ELSE <<Strip(Head(nodes))>>)
         \o StrippedStrings(Tail(nodes))

----------------------------------------------------------------------------
(* conjugation_parser.py *)

\* (mutant of MapPronounToKey: the singular test stands before the plural one)
MapPronounToKey_SingularFirst(text) ==
    LET pronoun == Lower(Strip(text))
    IN  IF Contains(pronoun, <<"j">>) THEN "je"
        ELSE IF Contains(pronoun, <<"t">>) THEN "tu"
        ELSE IF Contains(pronoun, s_il) \/ Contains(pronoun, s_elle)
                \/ Contains(pronoun, s_on) THEN "il"
        ELSE IF Contains(pronoun, s_ils) \/ Contains(pronoun, s_elles) THEN "ils"
        ELSE IF Contains(pronoun, s_nous) THEN "nous"
        ELSE IF Contains(pronoun, s_vous) THEN "vous"
        ELSE "None"

\* (mutant of MapPronounToKey: the test for "t" stands before the one for "j",
\* and the test for vous before the one for ils)
MapPronounToKey_OtherOrder(text) ==
    LET pronoun == Lower(Strip(text))
    IN  IF Contains(pronoun, <<"t">>) THEN "tu"
        ELSE IF Contains(pronoun, <<"j">>) THEN "je"
        ELSE IF Contains(pronoun, s_vous) THEN "vous"
        ELSE IF Contains(pronoun, s_ils) \/ Contains(pronoun, s_elles) THEN "ils"
        ELSE IF Contains(pronoun, s_il) \/ Contains(pronoun, s_elle)
                \/ Contains(pronoun, s_on) THEN "il"
        ELSE IF Contains(pronoun, s_nous) THEN "nous"
        ELSE "None"

\* __map_pronoun_to_key; "None" when no test matches
MapPronounToKey(text) ==
    LET pronoun == Lower(Strip(text))
    IN  IF Contains(pronoun, <<"j">>) THEN "je"
        ELSE IF Contains(pronoun, <<"t">>) THEN "tu"
        ELSE IF Contains(pronoun, s_ils) \/ Contains(pronoun, s_elles) THEN "ils"
        ELSE IF Contains(pronoun, s_il) \/ Contains(pronoun, s_elle)
                \/ Contains(pronoun, s_on) THEN "il"
        ELSE IF Contains(pronoun, s_nous) THEN "nous"
        ELSE IF Contains(pronoun, s_vous) THEN "vous"
        ELSE "None"

\* lines 199-203: the reflexive pronoun with its separator
ReflexivePrefix(row) ==
    LET raw  == IF Has(row.refl) THEN Strip(Get(row.refl)) ELSE <<>>
        norm == Replace(raw, CurlyApostrophe, <<Apostrophe>>)
    IN  IF norm # <<>> /\ ~Contains(norm, <<Apostrophe>>)
        THEN norm \o <<" ">>
        ELSE norm

\* lines 205-206
AuxiliaryPrefix(row) == IF Has(row.auxil) THEN Get(row.auxil) \o <<" ">> ELSE <<>>

\* lines 208-211: first text node, first comma-separated segment, no spaces
MainForm(row) ==
    Replace(Split(Strip(StrippedStrings(Get(row.verb))[1]), ",")[1], " ", <<>>)

\* lines 213-215
RectifiedForm(row) ==
    LET raw == IF Has(row.rectif) THEN Strip(Get(row.rectif)) ELSE <<>>
    IN  Replace(Split(raw, ",")[1], " ", <<>>)

\* (mutant of ComposeStandard: the alternate form is appended without the
\* prefix)
ComposeStandard_BareAlternate(row) ==
    LET prefix == ReflexivePrefix(row) \o AuxiliaryPrefix(row)
        first  == prefix \o MainForm(row)
    IN  IF RectifiedForm(row) # <<>>
        THEN first \o <<",">> \o RectifiedForm(row)
        ELSE first

\* lines 217-219
ComposeStandard(row) ==
    LET prefix == ReflexivePrefix(row) \o AuxiliaryPrefix(row)
        first  == prefix \o MainForm(row)
    IN  IF RectifiedForm(row) # <<>>
        THEN first \o <<",">> \o prefix \o RectifiedForm(row)
        ELSE first

\* the main-verb cell cannot be read: None has no stripped_strings
\* (AttributeError) or the cell has no text (IndexError)
VerbCellFails(row) ==
    ~Has(row.verb) \/ StrippedStrings(Get(row.verb)) = <<>>

\* one pass of the loop of __parse_tense_table (lines 191-219)
ParseTenseRow(row, result) ==
    IF ~Has(row.pp) THEN Ok(result)
    ELSE IF MapPronounToKey(Get(row.pp)) = "None" THEN Ok(result)
    ELSE IF VerbCellFails(row) THEN Raise
    ELSE Ok([result EXCEPT ![MapPronounToKey(Get(row.pp))] = ComposeStandard(row)])

RECURSIVE ParseTenseRows(_, _)
ParseTenseRows(rows, result) ==
    IF rows = <<>> THEN Ok(result)
    ELSE LET r == ParseTenseRow(Head(rows), result)
         IN  IF r.ok THEN ParseTenseRows(Tail(rows), r.val) ELSE Raise

\* __parse_tense_table
ParseTenseTable(rows) ==
    ParseTenseRows(rows, [k \in {"je", "tu", "il", "nous", "vous", "ils"} |-> None])

\* (mutant of ImperativePrefix: the reflexive cell is used whenever it exists)
ImperativePrefix_ReflexiveFirst(row) ==
    IF Has(row.refl) THEN Strip(Get(row.refl)) \o <<" ">>
    ELSE IF Has(row.auxil) THEN Get(row.auxil) \o <<" ">>
    ELSE <<>>

\* lines 243-250 of __parse_imperative_table
ImperativePrefix(row) ==
    IF Has(row.refl) /\ ~Has(row.auxil) THEN Strip(Get(row.refl)) \o <<" ">>
    ELSE IF Has(row.auxil) THEN Get(row.auxil) \o <<" ">>
    ELSE <<>>

\* lines 252-254
ImperativeMainForm(row) ==
    Split(Replace(Strip(StrippedStrings(Get(row.verb))[1]), " ", <<>>), ",")[1]

\* (mutant of ImperativeKey: the index is taken to start at 1)
ImperativeKey_FromOne(index) ==
    IF index = 1 THEN "tu" ELSE IF index = 2 THEN "nous" ELSE "vous"

\* line 256
ImperativeKey(index) == IF index = 0 THEN "tu" ELSE IF index = 1 THEN "nous" ELSE "vous"

RECURSIVE ParseImperativeRows(_, _, _)
ParseImperativeRows(rows, index, result) ==
    IF rows = <<>> THEN Ok(result)
    ELSE IF VerbCellFails(Head(rows)) THEN Raise
    ELSE ParseImperativeRows(Tail(rows), index + 1,
            [result EXCEPT ![ImperativeKey(index)] =
                ImperativePrefix(Head(rows)) \o ImperativeMainForm(Head(rows))])

\* __parse_imperative_table
ParseImperativeTable(rows) ==
    ParseImperativeRows(rows, 0, [k \in {"tu", "nous", "vous"} |-> None])

\* (mutant of ParseTenseDivs: an unknown label ends the loop, break written
\* for continue)
RECURSIVE ParseTenseDivs_BreakOnUnknown(_, _, _)
ParseTenseDivs_BreakOnUnknown(divs, is_imperatif, result) ==
    IF divs = <<>> THEN Ok(result)
    ELSE LET d   == Head(divs)
             key == TenseNameKey(Lower(Strip(Get(d.h4))))
             t   == IF is_imperatif THEN ParseImperativeTable(d.rows)
                    ELSE ParseTenseTable(d.rows)
         IN  IF ~Has(d.h4) THEN Raise
             ELSE IF key = "None" THEN Ok(result)
             ELSE IF ~t.ok THEN Raise
             ELSE ParseTenseDivs_BreakOnUnknown(Tail(divs), is_imperatif,
                                                Put(result, key, t.val))

\* the loop of __parse_mood_div (lines 149-159)
RECURSIVE ParseTenseDivs(_, _, _)
ParseTenseDivs(divs, is_imperatif, result) ==
    IF divs = <<>> THEN Ok(result)
    ELSE LET d   == Head(divs)
             key == TenseNameKey(Lower(Strip(Get(d.h4))))
             t   == IF is_imperatif THEN ParseImperativeTable(d.rows)
                    ELSE ParseTenseTable(d.rows)
         IN  IF ~Has(d.h4) THEN Raise  \* None has no text
             ELSE IF key = "None" THEN ParseTenseDivs(Tail(divs), is_imperatif, result)
             ELSE IF ~t.ok THEN Raise
             ELSE ParseTenseDivs(Tail(divs), is_imperatif, Put(result, key, t.val))

\* __parse_mood_div
ParseMoodDiv(divs, is_imperatif) == ParseTenseDivs(divs, is_imperatif, EmptyDict)

\* div_tag.find("div", id="<prefix>_<mood>") of __parse_conjugation_div
FindMood(voice, type, mood) ==
    IF voice.prefix = (IF type = 1 THEN "active" ELSE "prono") THEN voice[mood]
    ELSE Absent

MoodName(mood) ==
    CASE mood = "ind" -> "indicatif"
      [] mood = "sub" -> "subjonctif"
      [] mood = "con" -> "conditionnel"
      [] mood = "imp" -> "imperatif"

RECURSIVE ParseMoods(_, _, _, _)
ParseMoods(voice, type, moods, result) ==
    IF moods = <<>> THEN Ok(result)
    ELSE LET m   == Head(moods)
             div == FindMood(voice, type, m)
             r   == ParseMoodDiv(Get(div), m = "imp")
         IN  IF ~Has(div) THEN ParseMoods(voice, type, Tail(moods), result)
             ELSE IF ~r.ok THEN Raise
             ELSE ParseMoods(voice, type, Tail(moods), Put(result, MoodName(m), r.val))

\* __parse_conjugation_div
ParseConjugationDiv(voice, type) ==
    ParseMoods(voice, type, <<"ind", "sub", "con", "imp">>, EmptyDict)

\* the first td.conj_auxil of the table, in document order
FirstAuxil(rows) ==
    IF \E i \in 1..Len(rows) : Has(rows[i].auxil)
    THEN Some(Get(rows[CHOOSE i \in 1..Len(rows) :
                    Has(rows[i].auxil) /\ \A j \in 1..(i - 1) : ~Has(rows[j].auxil)].auxil))
    ELSE Absent

\* the loop of __guess_auxiliary (lines 72-83): Ok(0), Ok(1), Ok(2) or Raise
RECURSIVE GuessFromDivs(_)
GuessFromDivs(divs) ==
    IF divs = <<>> THEN Ok(0)
    ELSE LET d   == Head(divs)
             aux == Lower(Strip(Get(FirstAuxil(d.rows))))
         IN  IF ~(Has(d.h4) /\ Get(d.h4) = h_PasseCompose) THEN GuessFromDivs(Tail(divs))
             ELSE IF ~d.table THEN Raise                \* None has no find
             ELSE IF ~Has(FirstAuxil(d.rows)) THEN Raise \* None has no text
             ELSE IF aux \in AvoirForms THEN Ok(1)
             ELSE IF aux \in EtreForms THEN Ok(2)
             ELSE GuessFromDivs(Tail(divs))

\* __guess_auxiliary; the argument is the optional div#voix_active
GuessAuxiliary(voix_active_tag) ==
    IF ~Has(voix_active_tag) THEN Ok(0)
    ELSE LET v == Get(voix_active_tag)
         IN  GuessFromDivs(IF v.prefix = "active" /\ Has(v.ind) THEN Get(v.ind) ELSE <<>>)

\* what a call hands back: a record, Python's None, or an uncaught exception
Record(rec) == [kind |-> "record", rec |-> rec]
NoResult == [kind |-> "none"]
Raised == [kind |-> "raise"]

\* lines 21-30 of parse_conjugation_table: the guess is made only when both
\* explicit sections are missing
GuessOf(root) ==
    IF ~Has(root.avoir) /\ ~Has(root.etre) THEN GuessAuxiliary(root.active) ELSE Ok(0)

\* (mutant of AvoirTag: the guess is consulted although div#voix_active_etre
\* was found)
AvoirTag_GuessBesideEtre(root) ==
    IF ~Has(root.avoir) /\ GuessAuxiliary(root.active) = Ok(1)
    THEN root.active ELSE root.avoir

AvoirTag(root) ==
    IF ~Has(root.avoir) /\ ~Has(root.etre) /\ GuessOf(root).val = 1
    THEN root.active ELSE root.avoir

EtreTag(root) ==
    IF ~Has(root.avoir) /\ ~Has(root.etre) /\ GuessOf(root).val = 2
    THEN root.active ELSE root.etre

\* lines 40-48: result[verb][key] = __parse_conjugation_div(tag, type) when
\* the tag was found; acc is Ok(dict) or Raise
ParseVoice(acc, tag, key, type) ==
    IF ~acc.ok THEN Raise
    ELSE IF ~Has(tag) THEN acc
    ELSE LET r == ParseConjugationDiv(Get(tag), type)
         IN  IF r.ok THEN Ok(Put(acc.val, key, r.val)) ELSE Raise

\* (mutant of HAspire: the page text decides, whatever the initial letter)
HAspire_IgnoreInitial(root, v) == root.hAspire

\* lines 52-55; verb[0] of an empty string is an IndexError
HAspire(root, v) == IF v[1] # "h" THEN FALSE ELSE root.hAspire

\* parse_conjugation_table
ParseConjugationTable(root, v) ==
    LET voices == ParseVoice(
                    ParseVoice(
                      ParseVoice(Ok(EmptyDict), AvoirTag(root), "voix_active_avoir", 1),
                      EtreTag(root), "voix_active_etre", 1),
                    root.prono, "voix_prono", 2)
    IN  IF ~GuessOf(root).ok THEN Raised
        ELSE IF ~Has(AvoirTag(root)) /\ ~Has(EtreTag(root)) /\ ~Has(root.prono)
             THEN NoResult
        ELSE IF ~voices.ok THEN Raised
        ELSE IF v = <<>> THEN Raised
        ELSE Record(Put(voices.val, "h_aspire", HAspire(root, v)))

----------------------------------------------------------------------------
(* data_transformer.py *)

\* (mutant of HasInfinitiveVariant: the u with circumflex is forgotten)
HasInfinitiveVariant_OnlyI(verb_name) == Contains(verb_name, <<"&icirc;">>)

\* has_infinitive_variant
HasInfinitiveVariant(verb_name) ==
    Contains(verb_name, <<"&icirc;">>) \/ Contains(verb_name, <<"&ucirc;">>)

\* (mutant of ReformSubstitution: replace(.., 1), the first occurrence only)
ReformSubstitution_FirstOnly(verb_name) ==
    LET once(t, c, to) ==
            IF FirstIndex(t, c) = 0 THEN t
            ELSE SubSeq(t, 1, FirstIndex(t, c) - 1) \o to
                 \o SubSeq(t, FirstIndex(t, c) + 1, Len(t))
    IN  once(once(verb_name, "&icirc;", <<"i">>), "&ucirc;", <<"u">>)

\* the substitution of get_infinitive_variant (line 198)
ReformSubstitution(verb_name) ==
    Replace(Replace(verb_name, "&icirc;", <<"i">>), "&ucirc;", <<"u">>)

\* get_infinitive_variant
GetInfinitiveVariant(verb_name) ==
    IF HasInfinitiveVariant(verb_name) THEN ReformSubstitution(verb_name) ELSE None

\* (mutant of NewPersonKey: PERSON_MAPPING.get(person_key), no default)
NewPersonKey_NoDefault(person_key) ==
    IF person_key \in DOMAIN PERSON_MAPPING THEN PERSON_MAPPING[person_key]
    ELSE "None"

\* PERSON_MAPPING.get(person_key, person_key)
NewPersonKey(person_key) ==
    IF person_key \in DOMAIN PERSON_MAPPING THEN PERSON_MAPPING[person_key]
    ELSE person_key

\* line 161
CommaToSemicolon(conjugation) == Replace(conjugation, ",", <<";">>)

\* lines 152-163 of transform_tense.  The parser's tables (je..ils) and the
\* normaliser's own tables (1s..3pf) never hold two keys with one new key.
RewritePersons(tense_data) ==
    LET kept == {k \in DOMAIN tense_data : tense_data[k] # None}
    IN  [nk \in {NewPersonKey(k) : k \in kept} |->
            CommaToSemicolon(tense_data[CHOOSE k \in kept : NewPersonKey(k) = nk])]

\* (mutant of AddFeminine: the plural copy is forgotten)
AddFeminine_SingularOnly(result) ==
    IF "3sm" \in DOMAIN result THEN Put(result, "3sf", result["3sm"]) ELSE result

\* lines 166-169 of transform_tense
AddFeminine(result) ==
    LET s == IF "3sm" \in DOMAIN result THEN Put(result, "3sf", result["3sm"]) ELSE result
    IN  IF "3pm" \in DOMAIN s THEN Put(s, "3pf", s["3pm"]) ELSE s

\* transform_tense
TransformTense(tense_data) == AddFeminine(RewritePersons(tense_data))

\* (mutant of SimplePast: the first token of the compound cell, not the last)
SimplePast_FirstToken(passe) ==
    IF "singulier_m" \in DOMAIN passe
    THEN [k \in {"sm", "sf", "pm", "pf"} |->
            CASE k = "sm" -> passe["singulier_m"]
              [] k = "sf" -> passe["singulier_f"]
              [] k = "pm" -> passe["pluriel_m"]
              [] k = "pf" -> passe["pluriel_f"]]
    ELSE IF "compose" \in DOMAIN passe
    THEN LET parts == SplitWS(passe["compose"])
             invariable_pp == IF parts # <<>> THEN parts[1] ELSE passe["compose"]
         IN  [k \in {"sm", "sf", "pm", "pf"} |-> invariable_pp]
    ELSE EmptyDict

\* lines 91-106 of transform_participle: the simple past participles
SimplePast(passe) ==
    IF "singulier_m" \in DOMAIN passe
    THEN [k \in {"sm", "sf", "pm", "pf"} |->
            CASE k = "sm" -> passe["singulier_m"]
              [] k = "sf" -> passe["singulier_f"]
              [] k = "pm" -> passe["pluriel_m"]
              [] k = "pf" -> passe["pluriel_f"]]
    ELSE IF "compose" \in DOMAIN passe
    THEN LET parts == SplitWS(passe["compose"])
             invariable_pp == IF parts # <<>> THEN parts[Len(parts)] ELSE passe["compose"]
         IN  [k \in {"sm", "sf", "pm", "pf"} |-> invariable_pp]
    ELSE EmptyDict

\* [p.strip() for p in parts]
StripAll(parts) == [i \in 1..Len(parts) |-> Strip(parts[i])]

\* (mutant of CompoundPast: the later parts are stored without the auxiliary)
CompoundPast_NoAuxiliary(passe) ==
    IF "compose" \notin DOMAIN passe THEN EmptyDict
    ELSE LET compose_text == passe["compose"]
             parts == StripAll(Split(compose_text, ","))
         IN  IF Contains(compose_text, <<",">>) /\ Len(parts) >= 4
             THEN [k \in {"compound_sm", "compound_sf", "compound_pm", "compound_pf"} |->
                     CASE k = "compound_sm" -> parts[1]
                       [] k = "compound_sf" -> parts[2]
                       [] k = "compound_pm" -> parts[3]
                       [] k = "compound_pf" -> parts[4]]
             ELSE [k \in {"compound_sm", "compound_sf", "compound_pm", "compound_pf"} |->
                     compose_text]

\* (mutant of CompoundPast: the fallback stores part 0, not the raw text)
CompoundPast_FallbackFirstPart(passe) ==
    IF "compose" \notin DOMAIN passe THEN EmptyDict
    ELSE LET compose_text == passe["compose"]
             parts == StripAll(Split(compose_text, ","))
             aux_and_sm == SplitWS(parts[1])
             aux == Join(SubSeq(aux_and_sm, 1, Len(aux_and_sm) - 1), " ")
         IN  IF Contains(compose_text, <<",">>) /\ Len(parts) >= 4
             THEN [k \in {"compound_sm", "compound_sf", "compound_pm", "compound_pf"} |->
                     CASE k = "compound_sm" -> parts[1]
                       [] k = "compound_sf" -> aux \o <<" ">> \o parts[2]
                       [] k = "compound_pm" -> aux \o <<" ">> \o parts[3]
                       [] k = "compound_pf" -> aux \o <<" ">> \o parts[4]]
             ELSE [k \in {"compound_sm", "compound_sf", "compound_pm", "compound_pf"} |->
                     parts[1]]

\* lines 109-132 of transform_participle: the compound participles
CompoundPast(passe) ==
    IF "compose" \notin DOMAIN passe THEN EmptyDict
    ELSE LET compose_text == passe["compose"]
             parts == StripAll(Split(compose_text, ","))
             aux_and_sm == SplitWS(parts[1])
             aux == Join(SubSeq(aux_and_sm, 1, Len(aux_and_sm) - 1), " ")
         IN  IF Contains(compose_text, <<",">>) /\ Len(parts) >= 4
             THEN [k \in {"compound_sm", "compound_sf", "compound_pm", "compound_pf"} |->
                     CASE k = "compound_sm" -> parts[1]
                       [] k = "compound_sf" -> aux \o <<" ">> \o parts[2]
                       [] k = "compound_pm" -> aux \o <<" ">> \o parts[3]
                       [] k = "compound_pf" -> aux \o <<" ">> \o parts[4]]
             ELSE [k \in {"compound_sm", "compound_sf", "compound_pm", "compound_pf"} |->
                     compose_text]

\* dict union, the right operand winning
Merge(d, e) == [k \in (DOMAIN d) \cup (DOMAIN e) |-> IF k \in DOMAIN e THEN e[k] ELSE d[k]]

\* lines 92-97 of transform_participle: with 'singulier_m' present the three
\* other gendered keys are read unguarded (KeyError)
ParticipleFails(participe_data) ==
    /\ "passe" \in DOMAIN participe_data
    /\ "singulier_m" \in DOMAIN participe_data["passe"]
    /\ ~({"singulier_f", "pluriel_m", "pluriel_f"} \subseteq DOMAIN participe_data["passe"])

\* transform_participle; the 'passe' entry is a dict when present
TransformParticiple(participe_data) ==
    LET present == IF "present" \in DOMAIN participe_data
                   THEN participe_data["present"] ELSE None
        passe   == IF "passe" \in DOMAIN participe_data
                   THEN participe_data["passe"] ELSE EmptyDict
    IN  [k \in {"present", "passe"} |->
            IF k = "present" THEN present
            ELSE IF DOMAIN passe = {} THEN EmptyDict
            ELSE Merge(SimplePast(passe), CompoundPast(passe))]

\* lines 47-66 of transform_verb_data: one voice
TransformVoice(voice_data) ==
    [mood_key \in DOMAIN voice_data |->
        IF mood_key = "participe" THEN TransformParticiple(voice_data[mood_key])
        ELSE [tense_key \in DOMAIN voice_data[mood_key] |->
                TransformTense(voice_data[mood_key][tense_key])]]

\* keys whose value is a bool, a string or None, not a dict
ScalarKeys == {"rectification_1990", "rectification_1990_variante"}

\* transform_verb_data.  Every key but 'h_aspire' is taken for a voice: on a
\* scalar value the test 'participe' in voice_data (bool, None) or
\* voice_data.items() (str) raises.
TransformVerbData(verb_name, verb_data) ==
    IF (DOMAIN verb_data) \cap ScalarKeys # {} THEN Raised
    ELSE IF \E k \in (DOMAIN verb_data) \ {"h_aspire"} :
                /\ "participe" \in DOMAIN verb_data[k]
                /\ ParticipleFails(verb_data[k]["participe"])
    THEN Raised
    ELSE Record(
        [k \in (DOMAIN verb_data) \cup ScalarKeys |->
            IF k = "rectification_1990" THEN HasInfinitiveVariant(verb_name)
            ELSE IF k = "rectification_1990_variante" THEN GetInfinitiveVariant(verb_name)
            ELSE IF k = "h_aspire" THEN verb_data[k]
            ELSE TransformVoice(verb_data[k])])

\* (mutant of SwapVariants: the first two variants change places, the rest stay)
SwapVariants_FirstTwo(conjugation) ==
    LET parts == Split(conjugation, ";")
    IN  IF Contains(conjugation, <<";">>)
        THEN Join(<<parts[2], parts[1]>> \o SubSeq(parts, 3, Len(parts)), ";")
        ELSE conjugation

\* lines 240-243 of create_reformed_verb_entry
SwapVariants(conjugation) ==
    IF Contains(conjugation, <<";">>)
    THEN Join(Reversed(Split(conjugation, ";")), ";")
    ELSE conjugation

\* lines 233-243: one voice of the copy
SwapVoice(voice_data) ==
    [mood_key \in DOMAIN voice_data |->
        IF mood_key = "participe" THEN voice_data[mood_key]
        ELSE [tense_key \in DOMAIN voice_data[mood_key] |->
                [person_key \in DOMAIN voice_data[mood_key][tense_key] |->
                    SwapVariants(voice_data[mood_key][tense_key][person_key])]]]

\* (mutant of ReformedData: the back-reference of the original record is kept)
ReformedData_ForwardReference(verb_name, verb_data) ==
    [k \in (DOMAIN verb_data) \cup ScalarKeys |->
        IF k = "rectification_1990" THEN TRUE
        ELSE IF k = "rectification_1990_variante" THEN verb_data[k]
        ELSE IF k = "h_aspire" THEN verb_data[k]
        ELSE SwapVoice(verb_data[k])]

\* lines 220-243: the deep copy with its metadata and variant order changed
ReformedData(verb_name, verb_data) ==
    [k \in (DOMAIN verb_data) \cup ScalarKeys |->
        IF k = "rectification_1990" THEN TRUE
        ELSE IF k = "rectification_1990_variante" THEN verb_name
        ELSE IF k = "h_aspire" THEN verb_data[k]
        ELSE SwapVoice(verb_data[k])]

\* (mutant of ArgumentAfterCopy: copy.copy in place of copy.deepcopy, so the
\* voices of the copy are the argument's own objects and the swap edits them)
ArgumentAfterCopy_Shallow(verb_data) ==
    [k \in DOMAIN verb_data |->
        IF k \in ScalarKeys \cup {"h_aspire"} THEN verb_data[k]
        ELSE SwapVoice(verb_data[k])]

\* line 221, reformed_data = copy.deepcopy(verb_data): the record passed in,
\* as the caller finds it after the call.  The copy shares no object with it,
\* so the assignments of lines 224-243 do not reach it.
ArgumentAfterCopy(verb_data) == verb_data

\* create_reformed_verb_entry: None, or (reformed_name, reformed_data)
CreateReformedVerbEntry(verb_name, verb_data) ==
    IF ~HasInfinitiveVariant(verb_name) THEN NoResult
    ELSE IF GetInfinitiveVariant(verb_name) = <<>> THEN NoResult
    ELSE [kind |-> "record",
          key  |-> GetInfinitiveVariant(verb_name),
          rec  |-> ReformedData(verb_name, verb_data)]

----------------------------------------------------------------------------
(* Inputs: the markup the pipeline is run on *)

UpperChar(c) ==
    IF \E i \in 1..Len(LowerChars) : LowerChars[i] = c
    THEN UpperChars[CHOOSE i \in 1..Len(LowerChars) : LowerChars[i] = c]
    ELSE c

Upper(s) == [i \in 1..Len(s) |-> UpperChar(s[i])]

Row(pp, refl, auxil, verbNodes, rectif) ==
    [pp |-> pp, refl |-> refl, auxil |-> auxil, verb |-> verbNodes, rectif |-> rectif]

\* a row with a pronoun and a main form only
PlainRow(pronoun, form) == Row(Some(pronoun), Absent, Absent, Some(<<form>>), Absent)

TenseDiv(h4, table, rows) == [h4 |-> h4, table |-> table, rows |-> rows]

Voice(prefix, ind, sub, con, imp) ==
    [prefix |-> prefix, ind |-> ind, sub |-> sub, con |-> con, imp |-> imp]

Page(avoir, etre, active, prono, hAspire) ==
    [avoir |-> avoir, etre |-> etre, active |-> active, prono |-> prono,
     hAspire |-> hAspire]

h_Present == <<"P","r","&eacute;","s","e","n","t">>

f_parle   == <<"p","a","r","l","e">>
f_parles  == <<"p","a","r","l","e","s">>
f_parlons == <<"p","a","r","l","o","n","s">>
f_parlez  == <<"p","a","r","l","e","z">>
f_parlent == <<"p","a","r","l","e","n","t">>
f_parleP  == <<"p","a","r","l","&eacute;">>
f_tombe   == <<"t","o","m","b","e">>
f_lave    == <<"l","a","v","e">>
f_paraitC == <<"p","a","r","a","&icirc;","t">>
f_parait  == <<"p","a","r","a","i","t">>

v_parler    == <<"p","a","r","l","e","r">>
v_hair      == <<"h","a","i","r">>
v_paraitre  == <<"p","a","r","a","&icirc;","t","r","e">>

\* all sequences over S of length 0..n
RECURSIVE SeqsUpTo(_, _)
SeqsUpTo(S, n) ==
    IF n = 0 THEN {<<>>}
    ELSE LET shorter == SeqsUpTo(S, n - 1)
         IN  shorter \cup {Append(q, x) : q \in {r \in shorter : Len(r) = n - 1}, x \in S}

(* -- voice sections with a fixed content -- *)

\* div#voix_active_avoir: present and passe compose of the indicative
VoiceAvoir ==
    Voice("active",
          Some(<< TenseDiv(Some(h_Present), TRUE, <<PlainRow(s_je, f_parle)>>),
                  TenseDiv(Some(h_PasseCompose), TRUE,
                           <<Row(Some(<<"j", Apostrophe>>), Absent, Some(<<"a","i">>),
                                 Some(<<f_parleP>>), Absent)>>) >>),
          Absent, Absent,
          Some(<< TenseDiv(Some(h_Present), TRUE,
                           << Row(Absent, Absent, Absent, Some(<<f_parle>>), Absent),
                              Row(Absent, Absent, Absent, Some(<<f_parlons>>), Absent),
                              Row(Absent, Absent, Absent, Some(<<f_parlez>>), Absent) >>) >>))

\* div#voix_active_etre (written with the accent in the markup)
VoiceEtre ==
    Voice("active",
          Some(<< TenseDiv(Some(h_Present), TRUE,
                           <<PlainRow(s_il, f_tombe), PlainRow(s_ils, f_tombe \o <<"n","t">>)>>) >>),
          Absent, Absent, Absent)

\* div#voix_prono
VoiceProno ==
    Voice("prono",
          Some(<< TenseDiv(Some(h_Present), TRUE,
                           <<Row(Some(s_je), Some(<<"m","e">>), Absent,
                                 Some(<<f_lave>>), Absent)>>) >>),
          Absent, Absent, Absent)

\* div#voix_prono with a row that lacks its td.conj_verb
VoicePronoBroken ==
    Voice("prono",
          Some(<< TenseDiv(Some(h_Present), TRUE,
                           <<Row(Some(s_je), Some(<<"m","e">>), Absent, Absent, Absent)>>) >>),
          Absent, Absent, Absent)

(* -- the generic div#voix_active and its passe compose table -- *)

\* texts of the auxiliary cell: a trimmed lower-case core, written as it
\* is, in capitals, or with white space around it
AuxCores ==
    AvoirForms \cup EtreForms \cup
    { <<>>, <<"a","y","a","n","t">>, <<"e">>, <<"s","e","r","a">>, <<"a","i","s">> }

AuxDecorations == {"plain", "upper", "padded"}

Decorate(core, deco) ==
    CASE deco = "plain"  -> core
      [] deco = "upper"  -> Upper(core)
      [] deco = "padded" -> <<" ">> \o core \o <<"\n">>

AuxTexts == {Decorate(c, d) : c \in AuxCores, d \in AuxDecorations}

\* a passe compose block whose first row has the auxiliary cell text
PCDiv(text) ==
    TenseDiv(Some(h_PasseCompose), TRUE,
             << Row(Some(<<"j", Apostrophe>>), Absent, Some(text), Some(<<f_parleP>>), Absent),
                Row(Some(s_tu), Absent, Some(<<"x">>), Some(<<f_parleP>>), Absent) >>)

\* passe compose blocks the resolver cannot read
PCDivNoAuxil ==
    TenseDiv(Some(h_PasseCompose), TRUE,
             <<Row(Some(s_je), Absent, Absent, Some(<<f_parleP>>), Absent)>>)
PCDivNoTable ==
    TenseDiv(Some(h_PasseCompose), FALSE, <<>>)

PresentDiv == TenseDiv(Some(h_Present), TRUE, <<PlainRow(s_je, f_parle)>>)

\* the last block of the generic indicative mood
LastDivs == {PCDiv(t) : t \in AuxTexts} \cup {PCDivNoAuxil, PCDivNoTable, PresentDiv}

\* the blocks before it
FillerDivs == {PresentDiv, PCDiv(<<"a","y","a","n","t">>)}

GenericMoods ==
    {<<>>} \cup
    {Append(f, d) : f \in SeqsUpTo(FillerDivs, MaxTenses - 1), d \in LastDivs}

GenericVoices == {Voice("active", Some(m), Absent, Absent, Absent) : m \in GenericMoods}

\* generic sections kept when an explicit section stands beside them
FewGenericVoices ==
    { Voice("active", Some(<<d>>), Absent, Absent, Absent) :
        d \in {PCDiv(<<"a","i">>), PCDiv(<<"e","s","t">>), PCDiv(<<"e">>), PCDivNoAuxil} }

\* <<verb, page>>: every combination of the explicit sections with a few
\* generic ones, and every generic section on a page without explicit ones
LocateInputs ==
    { <<v, Page(a, e, g, p, h)>> :
        v \in {v_parler, v_hair},
        a \in {Absent, Some(VoiceAvoir)},
        e \in {Absent, Some(VoiceEtre)},
        g \in {Absent} \cup {Some(x) : x \in FewGenericVoices},
        p \in {Absent, Some(VoiceProno), Some(VoicePronoBroken)},
        h \in BOOLEAN }
    \cup
    { <<v_parler, Page(Absent, Absent, Some(g), p, FALSE)>> :
        g \in GenericVoices, p \in {Absent, Some(VoiceProno)} }

----------------------------------------------------------------------------
(* The pipeline for one verb *)

Unset == [kind |-> "unset"]

InitCrawlIdle ==
    /\ infFile = <<>>
    /\ ignoreCache = FALSE
    /\ todo = <<>>
    /\ cacheTxt = EmptyDict
    /\ htmlFile = EmptyDict
    /\ parsedFile = EmptyDict
    /\ prog = "idle"
    /\ maxRetry = CONFIG_MAX_RETRY
    /\ last = Unset
    /\ db = Absent

InitPipe(inputs) ==
    /\ \E i \in inputs : verb = i[1] /\ page = i[2]
    /\ pc = "start"
    /\ parsed = Unset
    /\ normalized = Unset
    /\ reformed = Unset
    /\ renormalized = Unset
    /\ InitCrawlIdle
    /\ gen = Unset

\* parse_conjugation_table(root_tag, verb, verb_nature)
Parse ==
    /\ pc = "start"
    /\ parsed' = ParseConjugationTable(page, verb)
    /\ pc' = "parsed"
    /\ UNCHANGED <<verb, page, normalized, reformed, renormalized, crawlVars>>

\* transform_verb_data(verb, record) on the parsed record
Normalize ==
    /\ pc = "parsed"
    /\ parsed.kind = "record"
    /\ normalized' = TransformVerbData(verb, parsed.rec)
    /\ pc' = "normalized"
    /\ UNCHANGED <<verb, page, parsed, reformed, renormalized, crawlVars>>

\* create_reformed_verb_entry(verb, normalized record)
Reform ==
    /\ pc = "normalized"
    /\ normalized.kind = "record"
    /\ reformed' = CreateReformedVerbEntry(verb, normalized.rec)
    /\ normalized' = IF reformed'.kind = "record"
                     THEN Record(ArgumentAfterCopy(normalized.rec))
                     ELSE normalized
    /\ pc' = "reformed"
    /\ UNCHANGED <<verb, page, parsed, renormalized, crawlVars>>

\* transform_verb_data run a second time, on its own output
Renormalize ==
    /\ pc = "reformed"
    /\ renormalized' = TransformVerbData(verb, normalized.rec)
    /\ pc' = "renormalized"
    /\ UNCHANGED <<verb, page, parsed, normalized, reformed, crawlVars>>

NextPipe == Parse \/ Normalize \/ Reform \/ Renormalize

InitLocate == InitPipe(LocateInputs)
SpecLocate == InitLocate /\ [][NextPipe]_vars

----------------------------------------------------------------------------
(* Voice locator and auxiliary resolver *)

NoExplicitActive == ~Has(page.avoir) /\ ~Has(page.etre)

\* the key is in the record parse_conjugation_table returned
KeyPresent(k) == parsed.kind = "record" /\ k \in DOMAIN parsed.rec

\* C1: in the result of parse_conjugation_table the key voix_active_avoir
\* (voix_active_etre) is present if and only if the explicit avoir (etre)
\* section exists or, with both explicit sections absent, the generic section
\* resolves to avoir (etre); when the resolver returns unresolved neither key
\* is present; a key that is present holds the whole decoded section.
C1_ActiveKeys ==
    (pc # "start" /\ parsed.kind # "raise") =>
        /\ KeyPresent("voix_active_avoir") <=>
              (Has(page.avoir)
               \/ (NoExplicitActive /\ GuessAuxiliary(page.active) = Ok(1)))
        /\ KeyPresent("voix_active_etre") <=>
              (Has(page.etre)
               \/ (NoExplicitActive /\ GuessAuxiliary(page.active) = Ok(2)))
        /\ (NoExplicitActive /\ GuessAuxiliary(page.active) = Ok(0)) =>
              (~KeyPresent("voix_active_avoir") /\ ~KeyPresent("voix_active_etre"))
        /\ KeyPresent("voix_active_avoir") =>
              parsed.rec["voix_active_avoir"] =
                 ParseConjugationDiv(
                    Get(IF Has(page.avoir) THEN page.avoir ELSE page.active), 1).val
        /\ KeyPresent("voix_active_etre") =>
              parsed.rec["voix_active_etre"] =
                 ParseConjugationDiv(
                    Get(IF Has(page.etre) THEN page.etre ELSE page.active), 1).val

\* C1 witness: a page with the generic section only, resolved to avoir, and
\* another explicit-etre page beside a generic avoir section are parsed
C1_Witness ==
    /\ pc = "parsed"
    /\ NoExplicitActive
    /\ Has(page.active)
    /\ KeyPresent("voix_active_avoir")
    /\ ~KeyPresent("voix_active_etre")

\* the expected classification, written out
C2_Avoir == { <<"a","i">>, <<"a","s">>, <<"a">>, <<"a","v","o","n","s">>,
              <<"a","v","e","z">>, <<"o","n","t">> }
C2_Etre  == { <<"s","u","i","s">>, <<"e","s">>, <<"e","s","t">>,
              <<"s","o","m","m","e","s">>, <<"&ecirc;","t","e","s">>,
              <<"s","o","n","t">> }
C2_Expected(core) == IF core \in C2_Avoir THEN 1 ELSE IF core \in C2_Etre THEN 2 ELSE 0

\* the passe compose blocks of the generic section's indicative mood
GenericInd == IF Has(page.active) /\ Has(Get(page.active).ind)
              THEN Get(Get(page.active).ind) ELSE <<>>
PCBlocks == {i \in 1..Len(GenericInd) :
                Has(GenericInd[i].h4) /\ Get(GenericInd[i].h4) = h_PasseCompose}
ThePCBlock == GenericInd[CHOOSE i \in PCBlocks : TRUE]

\* C2: with one passe compose table in the generic section, the resolver
\* returns avoir exactly when the trimmed lower-cased first-row auxiliary text
\* is one of ai, as, a, avons, avez, ont, etre exactly when it is one of suis,
\* es, est, sommes, etes (with its circumflex), sont, and unresolved for every
\* other text and when there is no passe compose table; the parsed page gets
\* its active-voice key accordingly.
C2_AuxiliaryResolution ==
    /\ \A c \in AuxCores, d \in AuxDecorations :
          ( /\ Cardinality(PCBlocks) = 1
            /\ ThePCBlock.table
            /\ ThePCBlock.rows # <<>>
            /\ ThePCBlock.rows[1].auxil = Some(Decorate(c, d)) )
          => /\ GuessAuxiliary(page.active) = Ok(C2_Expected(c))
             /\ (pc # "start" /\ NoExplicitActive /\ parsed.kind # "raise") =>
                   /\ KeyPresent("voix_active_avoir") <=> (C2_Expected(c) = 1)
                   /\ KeyPresent("voix_active_etre") <=> (C2_Expected(c) = 2)
    /\ PCBlocks = {} => GuessAuxiliary(page.active) = Ok(0)

\* C2 witness: the cell reads " est" followed by a line break, and the page is
\* parsed into the etre voice
C2_Witness ==
    /\ pc = "parsed"
    /\ NoExplicitActive
    /\ Cardinality(PCBlocks) = 1
    /\ ThePCBlock.rows # <<>>
    /\ ThePCBlock.rows[1].auxil = Some(<<" ", "e", "s", "t", "\n">>)
    /\ KeyPresent("voix_active_etre")

\* C3: a page with no avoir section, no etre section, no resolvable generic
\* section and no pronominal section makes parse_conjugation_table return
\* None; a returned record holds at least one voice.
C3_NoVoiceNoRecord ==
    /\ ( /\ pc # "start"
         /\ NoExplicitActive
         /\ ~Has(page.prono)
         /\ GuessAuxiliary(page.active) \notin {Ok(1), Ok(2)} )
       => parsed = NoResult
    /\ parsed.kind = "record" => (DOMAIN parsed.rec) \ {"h_aspire"} # {}

\* a passe compose block without a table element, or whose table has no
\* td.conj_auxil
Malformed(d) == ~d.table \/ \A i \in 1..Len(d.rows) : ~Has(d.rows[i].auxil)

\* C11: when the generic active section holds a malformed passe compose table
\* (no table element, or no auxiliary cell) and the resolver recognises no
\* auxiliary, the resolver returns unresolved: the active voice is omitted,
\* the pronominal voice is still parsed, and no exception reaches the caller
\* of parse_conjugation_table.
C11_MalformedIsUnresolved ==
    ( /\ pc # "start"
      /\ NoExplicitActive
      /\ \E i \in PCBlocks : Malformed(GenericInd[i])
      /\ GuessAuxiliary(page.active) \notin {Ok(1), Ok(2)} )
    => /\ parsed.kind # "raise"
       /\ ~KeyPresent("voix_active_avoir") /\ ~KeyPresent("voix_active_etre")
       /\ Has(page.prono) => KeyPresent("voix_prono")

----------------------------------------------------------------------------
(* Tense tables handed to the standard composer and the normaliser *)

PronounLabels == <<s_je, s_tu, s_il, s_nous, s_vous, s_ils>>
ParlerForms   == <<f_parle, f_parles, f_parle, f_parlons, f_parlez, f_parlent>>

\* the row of person i, written plainly or with capitals and white space in
\* the label, a liaison space and a feminine form in the cell, and a second
\* text node
SixRow(i, decorated) ==
    IF decorated
    THEN Row(Some(<<" ">> \o Upper(PronounLabels[i]) \o <<"\n">>), Absent, Absent,
             Some(<< <<" ">> \o SubSeq(ParlerForms[i], 1, 3) \o <<" ">>
                     \o SubSeq(ParlerForms[i], 4, Len(ParlerForms[i]))
                     \o <<",", " ">> \o ParlerForms[i] \o <<"e">>,
                     <<"x">> >>),
             Absent)
    ELSE PlainRow(PronounLabels[i], ParlerForms[i])

SixOrders == { <<1, 2, 3, 4, 5, 6>>, <<6, 5, 4, 3, 2, 1>>, <<4, 6, 1, 3, 5, 2>> }

SixRowTable(order, decorated) == [n \in 1..6 |-> SixRow(order[n], order[n] \in decorated)]

SixRowTables == {SixRowTable(o, D) : o \in SixOrders, D \in SUBSET (1..6)}

\* rows of a pronominal-looking table of paraitre, with and without the
\* rectified spelling, and rows the composer skips or fails on
GenRows ==
    { Row(Some(pp), refl, Absent, Some(<<f_paraitC>>), rectif) :
        pp \in {s_il, s_elles, s_je},
        refl \in {Absent, Some(<<"s", CurlyApostrophe>>)},
        rectif \in {Absent, Some(f_parait)} }
    \cup
    { Row(Absent, Absent, Absent, Some(<<f_paraitC>>), Absent),
      Row(Some(<<"x">>), Absent, Absent, Absent, Absent),
      Row(Some(s_il), Absent, Absent, Absent, Absent),
      Row(Some(s_il), Absent, Some(<<"a", ",", "a">>), Some(<<f_paraitC>>), Some(f_parait)) }

ShortTables == SeqsUpTo(GenRows, MaxRows)

\* a page whose explicit avoir section holds the table as the present of the
\* indicative, beside an imperative
TensePage(rows) ==
    Page(Some(Voice("active",
                    Some(<<TenseDiv(Some(h_Present), TRUE, rows)>>),
                    Absent, Absent,
                    VoiceAvoir.imp)),
         Absent, Absent, Absent, FALSE)

TenseInputs ==
    {<<v_parler, TensePage(t)>> : t \in SixRowTables}
    \cup {<<v_paraitre, TensePage(t)>> : t \in ShortTables}

InitTense == InitPipe(TenseInputs)
SpecTense == InitTense /\ [][NextPipe]_vars

\* the rows of the page's indicative present
PresentRows == Get(Get(page.avoir).ind)[1].rows

\* every tense table of the finite moods of a record, as <<voice, mood, tense>>
TensePaths(rec) ==
    UNION { UNION { { <<v, m, t>> : t \in DOMAIN rec[v][m] } :
                    m \in (DOMAIN rec[v]) \ {"participe"} } :
            v \in (DOMAIN rec) \ ({"h_aspire"} \cup ScalarKeys) }

TenseAt(rec, path) == rec[path[1]][path[2]][path[3]]

\* C4: a table with one row for each of je, tu, il, nous, vous, ils and no
\* reflexive, auxiliary or alternate cell, composed and then normalised,
\* yields exactly the keys 1s, 2s, 3sm, 3sf, 1p, 2p, 3pm, 3pf with the main
\* forms of the rows, 3sf and 3pf copying 3sm and 3pm.
C4_SixPersons ==
    (normalized.kind = "record" /\ Len(PresentRows) = 6) =>
    \A o \in SixOrders, D \in SUBSET (1..6) :
        (PresentRows = SixRowTable(o, D)) =>
            normalized.rec["voix_active_avoir"]["indicatif"]["present"] =
                [k \in {"1s", "2s", "3sm", "3sf", "1p", "2p", "3pm", "3pf"} |->
                    CASE k = "1s"  -> f_parle
                      [] k = "2s"  -> f_parles
                      [] k = "3sm" -> f_parle
                      [] k = "3sf" -> f_parle
                      [] k = "1p"  -> f_parlons
                      [] k = "2p"  -> f_parlez
                      [] k = "3pm" -> f_parlent
                      [] k = "3pf" -> f_parlent]

\* C4 witness: the six rows came in another order, every one of them with
\* capitals, white space and a feminine form, and the record is normalised
C4_Witness ==
    /\ pc = "normalized"
    /\ normalized.kind = "record"
    /\ PresentRows = SixRowTable(<<4, 6, 1, 3, 5, 2>>, 1..6)
    /\ DOMAIN normalized.rec["voix_active_avoir"]["indicatif"]["present"]
          = {"1s", "2s", "3sm", "3sf", "1p", "2p", "3pm", "3pf"}

HasComma(str) == \E i \in 1..Len(str) : str[i] = ","

FeminineCopied(t) ==
    /\ "3sm" \in DOMAIN t => ("3sf" \in DOMAIN t /\ t["3sf"] = t["3sm"])
    /\ "3pm" \in DOMAIN t => ("3pf" \in DOMAIN t /\ t["3pf"] = t["3pm"])

\* C5: in every finite-mood tense of the normalised record and of the
\* reform-variant record, 3sf is present and equal to 3sm when 3sm is, and 3pf
\* to 3pm; the copy is the composed value with its commas already rewritten.
C5_FeminineEqualsMasculine ==
    /\ normalized.kind = "record" =>
          \A path \in TensePaths(normalized.rec) :
              LET t   == TenseAt(normalized.rec, path)
                  src == TenseAt(parsed.rec, path)
              IN  /\ FeminineCopied(t)
                  /\ \A k \in (DOMAIN t) \cap {"3sf", "3pf"} : ~HasComma(t[k])
                  /\ ("il" \in DOMAIN src /\ src["il"] # None) =>
                        ("3sf" \in DOMAIN t
                         /\ Len(t["3sf"]) = Len(src["il"])
                         /\ \A i \in 1..Len(src["il"]) :
                               t["3sf"][i] = IF src["il"][i] = "," THEN ";"
                                             ELSE src["il"][i])
    /\ reformed.kind = "record" =>
          \A path \in TensePaths(reformed.rec) :
              FeminineCopied(TenseAt(reformed.rec, path))

\* C5 witness: a reform-variant record whose 3pm carries two variants
C5_Witness ==
    /\ pc = "reformed"
    /\ reformed.kind = "record"
    /\ \E path \in TensePaths(reformed.rec) :
          LET t == TenseAt(reformed.rec, path)
          IN  /\ {"3sm", "3sf", "3pm", "3pf"} \subseteq DOMAIN t
              /\ t["3pf"] = f_parait \o <<";">> \o f_paraitC
              /\ t["3sf"] # t["3pf"]

\* C7: every person form of the normalised record that is a
\* semicolon-separated list is the same list in reverse order in the record
\* create_reformed_verb_entry returns, a form without a semicolon is equal,
\* and the two records have the same voices, moods, tenses and persons.
C7_VariantsReversed ==
    reformed.kind = "record" =>
        /\ TensePaths(reformed.rec) = TensePaths(normalized.rec)
        /\ \A path \in TensePaths(normalized.rec) :
              LET o == TenseAt(normalized.rec, path)
                  r == TenseAt(reformed.rec, path)
              IN  /\ DOMAIN r = DOMAIN o
                  /\ \A k \in DOMAIN o :
                        LET op == Split(o[k], ";")
                            rp == Split(r[k], ";")
                        IN  /\ Len(rp) = Len(op)
                            /\ \A i \in 1..Len(op) : rp[i] = op[Len(op) + 1 - i]
                            /\ Len(op) = 1 => r[k] = o[k]

\* C7 witness: "parait(circumflex);parait" became "parait;parait(circumflex)"
\* and a plain form beside it stayed as it was
C7_Witness ==
    /\ pc = "reformed"
    /\ reformed.kind = "record"
    /\ \E path \in TensePaths(normalized.rec) :
          LET o == TenseAt(normalized.rec, path)
              r == TenseAt(reformed.rec, path)
          IN  /\ {"3sm", "1s"} \subseteq DOMAIN o
              /\ o["3sm"] = f_paraitC \o <<";">> \o f_parait
              /\ r["3sm"] = f_parait \o <<";">> \o f_paraitC
              /\ o["1s"] = f_paraitC
              /\ r["1s"] = f_paraitC

PersonLabels ==
    { <<s_je, "je">>, <<<<"j", Apostrophe>>, "je">>, <<<<"j", CurlyApostrophe>>, "je">>,
      <<s_tu, "tu">>, <<s_il, "il">>, <<s_elle, "il">>, <<s_on, "il">>,
      <<s_nous, "nous">>, <<s_vous, "vous">>, <<s_ils, "ils">>, <<s_elles, "ils">> }

\* the internal keys with a form that a tense object of the normalised record
\* stores under the key k
SourcesOf(parsedTense, k) ==
    {q \in DOMAIN parsedTense : parsedTense[q] # None /\ NewPersonKey(q) = k}

\* C13: within one tense no two persons end up under one key: the labels of
\* the persons go to their own internal keys, six distinct ones; the
\* internal-to-external mapping is injective; 3sf and 3pf are no image of an
\* internal key; so every key of a normalised tense carries the form of
\* exactly one internal key, and 3sf, 3pf the form of 3sm, 3pm.
C13_OnePersonPerKey ==
    /\ \A l \in PersonLabels : MapPronounToKey(l[1]) = l[2]
    /\ Cardinality({MapPronounToKey(PronounLabels[i]) : i \in 1..6}) = 6
    /\ \A a, b \in DOMAIN PERSON_MAPPING :
          PERSON_MAPPING[a] = PERSON_MAPPING[b] => a = b
    /\ \A a \in DOMAIN PERSON_MAPPING : PERSON_MAPPING[a] \notin {"3sf", "3pf"}
    /\ (normalized.kind = "record") =>
          \A path \in TensePaths(normalized.rec) :
             LET n == TenseAt(normalized.rec, path)
                 p == TenseAt(parsed.rec, path)
             IN  \A k \in DOMAIN n :
                    IF k \in {"3sf", "3pf"}
                    THEN /\ SourcesOf(p, k) = {}
                         /\ n[k] = n[IF k = "3sf" THEN "3sm" ELSE "3pm"]
                    ELSE /\ Cardinality(SourcesOf(p, k)) = 1
                         /\ \A q \in SourcesOf(p, k) : n[k] = CommaToSemicolon(p[q])

\* C13 witness: six rows in reverse order were composed and normalised into
\* eight keys
C13_Witness ==
    /\ pc = "normalized"
    /\ normalized.kind = "record"
    /\ PresentRows = SixRowTable(<<6, 5, 4, 3, 2, 1>>, {})
    /\ Cardinality(DOMAIN normalized.rec["voix_active_avoir"]["indicatif"]["present"]) = 8
    /\ normalized.rec["voix_active_avoir"]["indicatif"]["present"]["3pm"] = f_parlent

----------------------------------------------------------------------------
(* Imperative tables *)

f_lave_e == <<"l","a","v","&eacute;">>
f_aie    == <<"a","i","e">>
f_sois   == <<"s","o","i","s">>
f_toi    == <<"t","o","i">>

\* a bare row, and a row whose label names another person than its position
ImpPlain   == Row(Absent, Absent, Absent, Some(<<f_parle>>), Absent)
ImpLabeled == Row(Some(s_vous), Absent, Absent, Some(<<f_parlons>>), Absent)
\* a fused reflexive cell "sois-toi" with white space around it; the main
\* cell has a liaison space, a feminine form and a second text node
ImpFused ==
    Row(Some(s_tu), Some(<<" ">> \o f_sois \o <<"-">> \o f_toi \o <<"\n">>), Absent,
        Some(<< <<" ", "l", "a", " ", "v", "&eacute;", ",", " ">> \o f_lave_e \o <<"e">>,
                <<"x">> >>),
        Absent)
\* an auxiliary cell, beside a rectified spelling
ImpAuxil == Row(Absent, Absent, Some(f_aie), Some(<<f_parleP>>), Some(f_parait))
\* a reflexive cell and an auxiliary cell
ImpBoth  == Row(Absent, Some(f_toi), Some(f_sois), Some(<<f_lave_e>>), Absent)
\* a row without td.conj_verb
ImpBroken == Row(Absent, Some(f_toi), Absent, Absent, Absent)

ImpRows == {ImpPlain, ImpLabeled, ImpFused, ImpAuxil, ImpBoth, ImpBroken}

\* every table of up to MaxImpRows rows, and tables with one row more
ImpTables ==
    SeqsUpTo(ImpRows, MaxImpRows)
    \cup {Append(t, r) : t \in {u \in SeqsUpTo({ImpPlain, ImpLabeled}, MaxImpRows) :
                                  Len(u) = MaxImpRows},
                         r \in ImpRows}

\* a page whose explicit avoir section holds the table as the present of the
\* imperative
ImperativePage(rows) ==
    Page(Some(Voice("active", Absent, Absent, Absent,
                    Some(<<TenseDiv(Some(h_Present), TRUE, rows)>>))),
         Absent, Absent, Absent, FALSE)

ImperativeInputs == {<<v_parler, ImperativePage(t)>> : t \in ImpTables}

InitImperative == InitPipe(ImperativeInputs)
SpecImperative == InitImperative /\ [][NextPipe]_vars

\* the rows of the page's imperative present, and the table decoded from them
ImperativeRows == Get(Get(page.avoir).imp)[1].rows
ImperativeParsed == parsed.rec["voix_active_avoir"]["imperatif"]["present"]

\* the value each row is to be stored as, written out
ImpExpected(row) ==
    CASE row = ImpPlain   -> f_parle
      [] row = ImpLabeled -> f_parlons
      [] row = ImpFused   -> f_sois \o <<"-">> \o f_toi \o <<" ">> \o f_lave_e
      [] row = ImpAuxil   -> f_aie \o <<" ">> \o f_parleP
      [] row = ImpBoth    -> f_sois \o <<" ">> \o f_lave_e

\* C14: the imperative composer binds rows by position only: the row at index
\* 0 is stored under tu, index 1 under nous, index 2 under vous, whatever its
\* label; three rows without auxiliary or reflexive cell give exactly
\* {tu: main0, nous: main1, vous: main2}; with fewer than three rows the
\* remaining keys carry no form (None in the composer's table, no key after
\* transform_tense).  Rows after the third are stored under vous as well.
C14_PositionalBinding ==
    (pc # "start" /\ parsed.kind = "record") =>
       LET n == Len(ImperativeRows)
           t == ImperativeParsed
       IN  /\ DOMAIN t = {"tu", "nous", "vous"}
           /\ t["tu"]   = IF n >= 1 THEN ImpExpected(ImperativeRows[1]) ELSE None
           /\ t["nous"] = IF n >= 2 THEN ImpExpected(ImperativeRows[2]) ELSE None
           /\ t["vous"] = IF n >= 3 THEN ImpExpected(ImperativeRows[n]) ELSE None
           /\ (n = 3 /\ \A i \in 1..3 : ImperativeRows[i] \in {ImpPlain, ImpLabeled}) =>
                 t = [k \in {"tu", "nous", "vous"} |->
                        StrippedStrings(Get(ImperativeRows[
                           CASE k = "tu" -> 1 [] k = "nous" -> 2 [] k = "vous" -> 3].verb))[1]]
           /\ normalized.kind = "record" =>
                 DOMAIN normalized.rec["voix_active_avoir"]["imperatif"]["present"]
                    = {k \in {"2s", "1p", "2p"} :
                         n >= (CASE k = "2s" -> 1 [] k = "1p" -> 2 [] k = "2p" -> 3)}

\* C14 witness: a row labelled vous stands first, a bare row second, and the
\* table of two rows is decoded and normalised
C14_Witness ==
    /\ pc = "normalized"
    /\ ImperativeRows = <<ImpLabeled, ImpPlain>>
    /\ ImperativeParsed["tu"] = f_parlons
    /\ ImperativeParsed["nous"] = f_parle
    /\ ImperativeParsed["vous"] = None

\* C19: in the imperative composer the prefix of a row is the stripped text
\* of the reflexive cell (and a space) when that cell exists and no auxiliary
\* cell does, the text of the auxiliary cell alone (and a space) when an
\* auxiliary cell exists, and empty when neither exists; the stored value is
\* the prefix followed by the main form, extracted as the standard composer
\* does (first text node, first comma-separated segment, spaces removed); no
\* alternate spelling is appended.
C19_ImperativePrefix ==
    /\ \A row \in ImpRows \ {ImpBroken} : ImperativeMainForm(row) = MainForm(row)
    /\ (pc # "start" /\ parsed.kind = "record") =>
          \A i \in 1..Len(ImperativeRows) :
             (i <= 2 \/ i = Len(ImperativeRows)) =>
                LET value == ImperativeParsed[ImperativeKey(i - 1)]
                IN  /\ value = ImpExpected(ImperativeRows[i])
                    /\ \A c \in 1..Len(value) : value[c] # ","

\* C19 witness: a fused reflexive cell, an auxiliary cell beside a rectified
\* spelling, and a row with both cells were composed
C19_Witness ==
    /\ pc = "parsed"
    /\ parsed.kind = "record"
    /\ ImperativeRows = <<ImpFused, ImpAuxil, ImpBoth>>
    /\ ImperativeParsed["tu"] = f_sois \o <<"-">> \o f_toi \o <<" ">> \o f_lave_e
    /\ ImperativeParsed["nous"] = f_aie \o <<" ">> \o f_parleP
    /\ ImperativeParsed["vous"] = f_sois \o <<" ">> \o f_lave_e

----------------------------------------------------------------------------
(* Tense blocks of one mood, by their headings *)

\* the pair or triple of a set that starts with x
CaseOf(cases, x) == CHOOSE c \in cases : c[1] = x

Capitalized(l) == <<UpperChar(l[1])>> \o Tail(l)

\* h4.relation: <<text, the key the block is to be stored under>>
HeadingCases ==
    { <<Capitalized(l_present), "present">>,
      <<Capitalized(l_passe), "passe">>,
      <<Capitalized(l_imparfait), "imparfait">>,
      <<Capitalized(l_passe) \o <<" ">> \o l_compose, "passe_compose">>,
      <<Capitalized(l_pqp), "plus_que_parfait">>,
      <<Capitalized(l_futur) \o <<" ">> \o l_simple, "futur_simple">>,
      <<Capitalized(l_futur) \o <<" ">> \o l_anterieur, "futur_anterieur">>,
      <<Capitalized(l_passe) \o <<" ">> \o l_simple, "passe_simple">>,
      <<Capitalized(l_passe) \o <<" ">> \o l_anterieur, "passe_anterieur">>,
      <<<<" ">> \o Upper(l_present) \o <<"\n">>, "present">>,
      <<<<"\t">> \o l_passe \o <<" ">> \o Upper(l_simple) \o <<" ">>, "passe_simple">>,
      <<Capitalized(l_futur), "None">>,
      <<<<>>, "None">>,
      <<<<"P","r","e","s","e","n","t">>, "None">>,
      <<Capitalized(l_passe) \o <<" ", " ">> \o l_compose, "None">> }

HeadedDiv(text) == TenseDiv(Some(text), TRUE, <<PlainRow(s_je, f_parle)>>)

MoodTables == SeqsUpTo({HeadedDiv(h[1]) : h \in HeadingCases}, MaxTenses)

MoodPage(divs) ==
    Page(Some(Voice("active", Some(divs), Absent, Absent, Absent)),
         Absent, Absent, Absent, FALSE)

MoodInputs == {<<v_parler, MoodPage(d)>> : d \in MoodTables}

InitMood == InitPipe(MoodInputs)
SpecMood == InitMood /\ [][NextPipe]_vars

\* the tense blocks of the page's indicative, and the mood decoded from them
IndicativeDivs == Get(Get(page.avoir).ind)
IndicativeParsed == parsed.rec["voix_active_avoir"]["indicatif"]

CanonicalTenseKeys ==
    {"present", "passe", "imparfait", "passe_compose", "plus_que_parfait",
     "futur_simple", "futur_anterieur", "passe_simple", "passe_anterieur"}

\* C20: the mood decoder stores a tense only under one of the nine canonical
\* keys, chosen by the trimmed, lower-cased heading; a block whose heading is
\* none of the nine labels is dropped without raising, and the other blocks
\* of the mood are decoded all the same.
C20_NineTenseKeys ==
    /\ {e[2] : e \in TenseNameKeyMap} = CanonicalTenseKeys
    /\ Cardinality(TenseNameKeyMap) = 9
    /\ pc # "start" =>
          /\ parsed.kind = "record"
          /\ DOMAIN IndicativeParsed \subseteq CanonicalTenseKeys
          /\ DOMAIN IndicativeParsed =
                {CaseOf(HeadingCases, Get(IndicativeDivs[i].h4))[2] :
                    i \in 1..Len(IndicativeDivs)} \ {"None"}
          /\ \A k \in DOMAIN IndicativeParsed : IndicativeParsed[k]["je"] = f_parle

\* C20 witness: a block headed "Futur" stands before one headed "Passe
\* simple" in capitals, and the second one is decoded
C20_Witness ==
    /\ pc = "parsed"
    /\ Len(IndicativeDivs) = 2
    /\ IndicativeDivs[1].h4 = Some(Capitalized(l_futur))
    /\ IndicativeDivs[2].h4 = Some(<<"\t">> \o l_passe \o <<" ">> \o Upper(l_simple) \o <<" ">>)
    /\ parsed.kind = "record"
    /\ DOMAIN IndicativeParsed = {"passe_simple"}

----------------------------------------------------------------------------
(* Rows handed to the standard composer, cell by cell *)

f_abaisse == <<"a","b","a","i","s","s","e">>
f_suis    == <<"s","u","i","s">>
f_vais    == <<"v","a","i","s">>

\* span.conj_pp: <<text, the key the row is to be stored under>>
LabelCases ==
    { <<s_je, "je">>, <<<<"j", Apostrophe>>, "je">>, <<<<"j", CurlyApostrophe>>, "je">>,
      <<s_tu, "tu">>, <<s_il, "il">>, <<s_elle, "il">>, <<s_on, "il">>,
      <<s_nous, "nous">>, <<s_vous, "vous">>, <<s_ils, "ils">>, <<s_elles, "ils">>,
      <<<<" ">> \o Upper(s_elles) \o <<"\n">>, "ils">>,
      <<s_il \o <<"/">> \o s_elle \o <<"/">> \o s_on, "il">>,
      <<s_je \o <<"/">> \o s_tu, "je">>,
      <<s_tu \o <<"/">> \o s_vous, "tu">>,
      <<s_vous \o <<"/">> \o s_ils, "ils">>,
      <<s_nous \o <<"/">> \o s_on, "il">>,
      <<s_vous \o <<"/">> \o s_nous, "nous">>,
      <<<<"x">>, "None">>, <<<<>>, "None">>, <<<<"i", " ", "l">>, "None">> }

\* td.conj_refl-pron: <<cell, the prefix the composer makes of it, the prefix
\* made by "a space unless the pronoun ends with an apostrophe">>
ReflCases ==
    { <<Absent, <<>>, <<>>>>,
      <<Some(<<>>), <<>>, <<>>>>,
      <<Some(<<"m","e">>), <<"m","e"," ">>, <<"m","e"," ">>>>,
      <<Some(<<" ","m","e","\n">>), <<"m","e"," ">>, <<"m","e"," ">>>>,
      <<Some(<<"m", CurlyApostrophe>>), <<"m", Apostrophe>>, <<"m", Apostrophe>>>>,
      <<Some(<<"m", Apostrophe>>), <<"m", Apostrophe>>, <<"m", Apostrophe>>>>,
      <<Some(<<"m", CurlyApostrophe, "e", "n">>), <<"m", Apostrophe, "e", "n">>,
        <<"m", Apostrophe, "e", "n", " ">>>> }

\* td.conj_auxil: <<cell, prefix>>
AuxilCases == { <<Absent, <<>>>>, <<Some(f_suis), f_suis \o <<" ">>>> }

\* td.conj_verb: <<text nodes, main form>>
VerbCases ==
    { << <<f_lave>>, f_lave >>,
      << << <<" ","a","b","a","i","s"," ","s","e",","," ">> \o f_abaisse \o <<"e"," ">>,
            <<"x">> >>, f_abaisse >>,
      << << <<" ">>, f_vais >>, f_vais >> }

\* span.forme_rectif: <<cell, alternate form>>; the empty form is no alternate
RectifCases ==
    { <<Absent, <<>>>>,
      <<Some(<<>>), <<>>>>,
      <<Some(<<" ","p","a","r"," ","a","i","t",","," ","x">>), f_parait>> }

\* one-row tables: every label with a plain cell, and every combination of
\* the other cells in a row labelled je
ComposeRows ==
    { PlainRow(l[1], f_lave) : l \in LabelCases }
    \cup
    { Row(Some(s_je), r[1], a[1], Some(v[1]), x[1]) :
        r \in ReflCases, a \in AuxilCases, v \in VerbCases, x \in RectifCases }

\* tables of two rows: a row after which a row with an unknown label, or a
\* row with another label of the same person, follows
ComposeTables ==
    { <<r>> : r \in ComposeRows }
    \cup { <<PlainRow(s_je, f_vais), PlainRow(l[1], f_lave)>> : l \in LabelCases }

ComposeInputs == {<<v_parler, TensePage(t)>> : t \in ComposeTables}

InitCompose == InitPipe(ComposeInputs)
SpecCompose == InitCompose /\ [][NextPipe]_vars

\* the table decoded from the page's indicative present
PresentParsed == parsed.rec["voix_active_avoir"]["indicatif"]["present"]

\* the value of a row labelled je, put together from the written-out parts
ExpectedValue(row, reflexive) ==
    LET prefix == reflexive \o CaseOf(AuxilCases, row.auxil)[2]
        main   == CaseOf(VerbCases, Get(row.verb))[2]
        alt    == CaseOf(RectifCases, row.rectif)[2]
    IN  IF alt # <<>> THEN prefix \o main \o <<",">> \o prefix \o alt
        ELSE prefix \o main

\* C15: in the standard composer the reflexive pronoun has curly apostrophes
\* replaced by straight ones and gets a trailing space exactly when it is
\* non-empty and does not end with an apostrophe.
C15_ReflexiveSpacing ==
    (pc # "start" /\ parsed.kind = "record" /\ Len(PresentRows) = 1
       /\ PresentRows[1].pp = Some(s_je) /\ Has(PresentRows[1].verb)) =>
       PresentParsed["je"]
          = ExpectedValue(PresentRows[1], CaseOf(ReflCases, PresentRows[1].refl)[3])

\* C17: the pronoun cell's trimmed, lower-cased text is mapped by substring
\* tests in the order j, t, ils/elles, il/elle/on, nous, vous; each label of
\* a person maps to that person's key; a row whose label matches no test is
\* skipped and leaves every key as it was.
C17_PronounPrecedence ==
    /\ \A l \in LabelCases : MapPronounToKey(l[1]) = l[2]
    /\ (pc # "start" /\ parsed.kind = "record" /\ Len(PresentRows) = 2) =>
          LET key == CaseOf(LabelCases, Get(PresentRows[2].pp))[2]
          IN  \A k \in {"je", "tu", "il", "nous", "vous", "ils"} :
                 PresentParsed[k] =
                    IF k = key THEN f_lave
                    ELSE IF k = "je" THEN f_vais
                    ELSE None

\* C17 witness: after a row of je a row labelled "vous/ils" went to ils, and
\* the table was decoded
C17_Witness ==
    /\ pc = "parsed"
    /\ parsed.kind = "record"
    /\ Len(PresentRows) = 2
    /\ PresentRows[2].pp = Some(s_vous \o <<"/">> \o s_ils)
    /\ PresentParsed["ils"] = f_lave
    /\ PresentParsed["vous"] = None

----------------------------------------------------------------------------
(* Infinitives handed to the reform-variant synthesiser *)

InfAlphabet == {"h", "H", "a", "&icirc;", "&ucirc;"}

\* every infinitive of at most MaxInfLen letters (the empty one included: a
\* blank line of infinitives.txt)
Infinitives == SeqsUpTo(InfAlphabet, MaxInfLen)

ReformPages ==
    { TensePage(<<Row(Some(s_il), Absent, Absent, Some(<<f_paraitC>>), Some(f_parait))>>),
      Page(Absent, Absent, Absent, Some(VoiceProno), TRUE) }

ReformInputs == {<<v, p>> : v \in Infinitives, p \in ReformPages}

InitReform == InitPipe(ReformInputs)
SpecReform == InitReform /\ [][NextPipe]_vars

\* the string holds an i or a u with a circumflex
HasCirc(str) == \E i \in 1..Len(str) : str[i] \in {"&icirc;", "&ucirc;"}

\* C6 as claimed: in every record the pipeline produces, rectification_1990 is
\* true if and only if the infinitive the record is keyed by holds an i or a u
\* with a circumflex.
C6_FlagIffKeyHasCirc ==
    /\ normalized.kind = "record" =>
          (normalized.rec["rectification_1990"] <=> HasCirc(verb))
    /\ reformed.kind = "record" =>
          (reformed.rec["rectification_1990"] <=> HasCirc(reformed.key))

\* C6 as amended: the flag of a record is true if and only if the original
\* infinitive holds an i or a u with a circumflex: the record of
\* transform_verb_data is keyed by that infinitive; the record of
\* create_reformed_verb_entry is keyed by the reformed infinitive, which holds
\* neither letter, and its flag is true.
C6_FlagIffOriginalHasCirc ==
    /\ normalized.kind = "record" =>
          /\ normalized.rec["rectification_1990"] <=> HasCirc(verb)
          /\ \A k \in (DOMAIN parsed.rec) \ {"h_aspire"} : k \in DOMAIN normalized.rec
    /\ pc \in {"reformed", "renormalized"} =>
          (reformed.kind = "record" <=> HasCirc(verb))
    /\ reformed.kind = "record" =>
          /\ reformed.rec["rectification_1990"] = TRUE
          /\ HasCirc(verb)
          /\ ~HasCirc(reformed.key)

\* C6 witness: both records exist for an infinitive with a circumflex u
C6_Witness ==
    /\ pc = "reformed"
    /\ reformed.kind = "record"
    /\ verb = <<"h", "&ucirc;", "a">>
    /\ normalized.rec["rectification_1990"] = TRUE
    /\ reformed.key = <<"h", "u", "a">>

\* C8: for every infinitive with an i or a u with a circumflex,
\* has_infinitive_variant is false of get_infinitive_variant of it: one pass
\* removed every occurrence of both letters, so a second pass changes nothing.
C8_ReformedIsFixedPoint ==
    (pc \in {"reformed", "renormalized"} /\ HasCirc(verb)) =>
        /\ reformed.kind = "record"
        /\ reformed.key = GetInfinitiveVariant(verb)
        /\ ~HasInfinitiveVariant(reformed.key)
        /\ ~HasCirc(reformed.key)
        /\ ReformSubstitution(reformed.key) = reformed.key
        /\ Len(reformed.key) = Len(verb)
        /\ \A i \in 1..Len(verb) :
              reformed.key[i] = CASE verb[i] = "&icirc;" -> "i"
                                  [] verb[i] = "&ucirc;" -> "u"
                                  [] OTHER -> verb[i]

\* C8 witness: an infinitive with both letters, one of them twice
C8_Witness ==
    /\ pc = "reformed"
    /\ verb = <<"&icirc;", "&ucirc;", "&icirc;">>
    /\ reformed.kind = "record"
    /\ reformed.key = <<"i", "u", "i">>

\* C16: create_reformed_verb_entry returns no record when the infinitive
\* holds neither letter with a circumflex; otherwise it returns one record,
\* keyed by the infinitive with every such i and u replaced, a key other than
\* the original one, whose rectification_1990_variante is the original
\* infinitive; the original record is a separate one that names the reformed
\* infinitive.
C16_OneReformRecord ==
    (pc \in {"reformed", "renormalized"}) =>
        /\ ~HasCirc(verb) => reformed = NoResult
        /\ HasCirc(verb) =>
              /\ reformed.kind = "record"
              /\ reformed.key # verb
              /\ reformed.key = [i \in 1..Len(verb) |->
                                   IF verb[i] = "&icirc;" THEN "i"
                                   ELSE IF verb[i] = "&ucirc;" THEN "u"
                                   ELSE verb[i]]
              /\ reformed.rec["rectification_1990_variante"] = verb
              /\ normalized.rec["rectification_1990_variante"] = reformed.key
              /\ reformed.rec # normalized.rec

\* C16 witness: a record was made for an infinitive with a circumflex i, from
\* a page with a pronominal voice only
C16_Witness ==
    /\ pc = "reformed"
    /\ verb = <<"a", "&icirc;">>
    /\ reformed.kind = "record"
    /\ reformed.key = <<"a", "i">>
    /\ reformed.rec["rectification_1990_variante"] = <<"a", "&icirc;">>
    /\ page.hAspire

\* C24: whenever a record is produced, h_aspire is true exactly when the
\* infinitive begins with a lower-case h and the page text holds the marker
\* "H aspire"; with any other initial letter it is false whatever the page
\* text holds, and for an infinitive that has an initial letter the
\* computation does not fail (both pages of this specification parse, so a
\* record is produced).
C24_HAspire ==
    (pc # "start" /\ verb # <<>>) =>
        /\ parsed.kind = "record"
        /\ parsed.rec["h_aspire"] = (verb[1] = "h" /\ page.hAspire)
        /\ verb[1] # "h" => parsed.rec["h_aspire"] = FALSE

\* an infinitive in h on a page that holds the marker
C24_Witness ==
    /\ pc = "parsed"
    /\ verb # <<>>
    /\ verb[1] = "h"
    /\ page.hAspire
    /\ parsed.kind = "record"
    /\ parsed.rec["h_aspire"] = TRUE

----------------------------------------------------------------------------
(* Participle data handed to the normaliser.  parse_conjugation_table emits  *)
(* no 'participe' mood; transform_verb_data accepts one in any voice, so the *)
(* records below are drawn at the normaliser's entry.                        *)

w_ayant  == <<"a","y","a","n","t">>
w_ete    == <<"&eacute;","t","&eacute;">>
w_aimant == <<"a","i","m","a","n","t">>
p_aime   == <<"a","i","m","&eacute;">>
p_aimee  == <<"a","i","m","&eacute;","e">>
p_aimes  == <<"a","i","m","&eacute;","s">>
p_aimees == <<"a","i","m","&eacute;","e","s">>

\* part 0 of a compound cell: <<its text, its words but the last joined by one
\* space, its last word>>
Part0Cases ==
    { <<w_ayant \o <<" ">> \o p_aime,                          w_ayant, p_aime>>,
      <<p_aime,                                                <<>>,    p_aime>>,
      <<w_ayant \o <<" ", " ">> \o w_ete \o <<" ">> \o p_aime,
                                      w_ayant \o <<" ">> \o w_ete,      p_aime>>,
      <<<<" ">> \o w_ayant \o <<" ">> \o p_aime,               w_ayant, p_aime>>,
      <<<<>>,                                                  <<>>,    <<>>>> }

\* a later part of a compound cell: <<its text, the text stripped>>
LaterCases ==
    { <<<<" ">> \o p_aimee, p_aimee>>,
      <<p_aimes,            p_aimes>> }

\* the parts after part 0, at most MaxParts - 1 of them
LaterParts == SeqsUpTo(LaterCases, MaxParts - 1)

\* the text of the cell: the parts joined by commas
RECURSIVE CommaJoined(_)
CommaJoined(later) ==
    IF later = <<>> THEN <<>>
    ELSE <<",">> \o Head(later)[1] \o CommaJoined(Tail(later))

ComposeText(first, later) == first[1] \o CommaJoined(later)

\* cells without a word, and a cell whose text holds a semicolon
OddComposeTexts == { <<" ", " ">>, p_aime \o <<";">> \o p_aimee }

ComposeTexts ==
    {ComposeText(f, l) : f \in Part0Cases, l \in LaterParts} \cup OddComposeTexts

FourForms == [singulier_m |-> p_aime, singulier_f |-> p_aimee,
              pluriel_m |-> p_aimes, pluriel_f |-> p_aimees]

\* the 'passe' dicts: the compound cell alone or beside the four gendered
\* forms, the four forms alone, an incomplete set of forms, nothing
PasseDicts ==
    {[compose |-> c] : c \in ComposeTexts}
    \cup {Merge(FourForms, [compose |-> c]) : c \in ComposeTexts}
    \cup { FourForms,
           [singulier_m |-> p_aime],
           [singulier_m |-> p_aime, compose |-> p_aime],
           [singulier_f |-> p_aimee],
           EmptyDict }

ParticipeDicts ==
    {[passe |-> d] : d \in PasseDicts}
    \cup {[present |-> w_aimant, passe |-> d] : d \in PasseDicts}
    \cup { [present |-> w_aimant], [present |-> None, passe |-> FourForms], EmptyDict }

\* the present of the indicative, as the standard composer leaves it: one
\* form with its rectified alternate, one without
VariantTense == [il |-> f_paraitC \o <<",">> \o f_parait, je |-> f_parle]

ParticipleRecord(participe) ==
    [h_aspire |-> FALSE,
     voix_active_avoir |-> [indicatif |-> [present |-> VariantTense],
                            participe |-> participe]]

ParticipleInputs ==
    {<<v, ParticipleRecord(d)>> : v \in {v_parler, v_paraitre}, d \in ParticipeDicts}

InitParticiple ==
    /\ \E i \in ParticipleInputs : verb = i[1] /\ parsed = Record(i[2])
    /\ page = Unset
    /\ pc = "parsed"
    /\ normalized = Unset
    /\ reformed = Unset
    /\ renormalized = Unset
    /\ InitCrawlIdle
    /\ gen = Unset

NextNormalize == Normalize \/ Reform \/ Renormalize

SpecParticiple == InitParticiple /\ [][NextNormalize]_vars

\* the participle data handed in and handed back
ParticipeIn  == parsed.rec["voix_active_avoir"]["participe"]
ParticipeOut == normalized.rec["voix_active_avoir"]["participe"]

PastSlots == {"sm", "sf", "pm", "pf"}

\* the last maximal run of non-whitespace characters of a text that has one
LastToken(s) ==
    LET e == CHOOSE i \in 1..Len(s) :
                 ~IsSpace(s[i]) /\ \A j \in (i + 1)..Len(s) : IsSpace(s[j])
        b == CHOOSE i \in 1..e :
                 /\ \A j \in i..e : ~IsSpace(s[j])
                 /\ i = 1 \/ IsSpace(s[i - 1])
    IN  SubSeq(s, b, e)

HasToken(s) == \E i \in 1..Len(s) : ~IsSpace(s[i])

\* C21: transform_participle hands the present participle back unchanged
\* (None when the key is absent); four explicit gendered forms go one-to-one
\* to sm, sf, pm, pf; with no gendered form and a compound cell, the last
\* whitespace-separated token of the cell goes to all four slots; with
\* neither, the past object is empty.
C21_ParticipleSlots ==
    (pc # "parsed" /\ normalized.kind = "record") =>
        LET passe == IF "passe" \in DOMAIN ParticipeIn
                     THEN ParticipeIn["passe"] ELSE EmptyDict
            out   == ParticipeOut["passe"]
        IN  /\ ParticipeOut["present"] =
                  (IF "present" \in DOMAIN ParticipeIn THEN ParticipeIn["present"] ELSE None)
            /\ {"singulier_m", "singulier_f", "pluriel_m", "pluriel_f"} \subseteq DOMAIN passe
                  => /\ out["sm"] = passe["singulier_m"]
                     /\ out["sf"] = passe["singulier_f"]
                     /\ out["pm"] = passe["pluriel_m"]
                     /\ out["pf"] = passe["pluriel_f"]
            /\ (DOMAIN passe = {"compose"} /\ HasToken(passe["compose"]))
                  => \A k \in PastSlots : out[k] = LastToken(passe["compose"])
            /\ ("singulier_m" \notin DOMAIN passe /\ "compose" \notin DOMAIN passe)
                  => out = EmptyDict

\* a compound cell of several words and parts has been reduced to its last
\* token, and elsewhere four gendered forms were mapped
C21_Witness ==
    /\ pc = "normalized"
    /\ normalized.kind = "record"
    /\ "passe" \in DOMAIN ParticipeIn
    /\ DOMAIN ParticipeIn["passe"] = {"compose"}
    /\ ParticipeIn["passe"]["compose"] =
          w_ayant \o <<" ">> \o p_aime \o <<",", " ">> \o p_aimee
    /\ ParticipeOut["passe"]["sm"] = p_aimee
    /\ ParticipeOut["present"] = None

\* the compound cell handed in, and the four compound slots handed back
HasCompose ==
    /\ pc # "parsed"
    /\ normalized.kind = "record"
    /\ "passe" \in DOMAIN ParticipeIn
    /\ "compose" \in DOMAIN ParticipeIn["passe"]

ComposeIn == ParticipeIn["passe"]["compose"]

CompoundSlots == {"compound_sm", "compound_sf", "compound_pm", "compound_pf"}

\* the cells of exactly four parts, by their construction
FourPartCells == {<<f, l>> : f \in Part0Cases, l \in {q \in LaterParts : Len(q) = 3}}

\* C22 (as stated): with exactly 4 comma-separated parts, every compound slot,
\* compound_sm included, is the auxiliary (the words of part 0 but the last),
\* a space, and the part's participle (for sm the last word of part 0).
C22_AuxiliaryPlusParticiple ==
    HasCompose =>
        \A c \in FourPartCells :
            ComposeIn = ComposeText(c[1], c[2]) =>
                /\ ParticipeOut["passe"]["compound_sm"] = c[1][2] \o <<" ">> \o c[1][3]
                /\ ParticipeOut["passe"]["compound_sf"] = c[1][2] \o <<" ">> \o c[2][1][2]
                /\ ParticipeOut["passe"]["compound_pm"] = c[1][2] \o <<" ">> \o c[2][2][2]
                /\ ParticipeOut["passe"]["compound_pf"] = c[1][2] \o <<" ">> \o c[2][3][2]

\* C22 (amended): with exactly 4 comma-separated parts, compound_sm is part 0
\* itself, stripped; compound_sf, compound_pm and compound_pf are the
\* auxiliary (the words of part 0 but the last, joined by single spaces), a
\* space, and the stripped part 1, 2, 3.
C22_PartZeroKept ==
    HasCompose =>
        \A c \in FourPartCells :
            ComposeIn = ComposeText(c[1], c[2]) =>
                /\ ParticipeOut["passe"]["compound_sm"] = Strip(c[1][1])
                /\ ParticipeOut["passe"]["compound_sf"] = c[1][2] \o <<" ">> \o c[2][1][2]
                /\ ParticipeOut["passe"]["compound_pm"] = c[1][2] \o <<" ">> \o c[2][2][2]
                /\ ParticipeOut["passe"]["compound_pf"] = c[1][2] \o <<" ">> \o c[2][3][2]

\* a cell of four parts whose part 0 is two auxiliary words, doubly spaced,
\* and a participle
C22_Witness ==
    /\ HasCompose
    /\ pc = "normalized"
    /\ ComposeIn = w_ayant \o <<" ", " ">> \o w_ete \o <<" ">> \o p_aime
                   \o <<",", " ">> \o p_aimee \o <<",">> \o p_aimes \o <<",", " ">> \o p_aimee
    /\ ParticipeOut["passe"]["compound_sm"] =
          w_ayant \o <<" ", " ">> \o w_ete \o <<" ">> \o p_aime
    /\ ParticipeOut["passe"]["compound_pm"] =
          w_ayant \o <<" ">> \o w_ete \o <<" ">> \o p_aimes

\* the number of comma-separated parts of a text
PartCount(s) == Cardinality({i \in 1..Len(s) : s[i] = ","}) + 1

\* the gendered forms of the 'passe' dict are all there or all missing
FormsComplete(passe) ==
    LET forms == {"singulier_m", "singulier_f", "pluriel_m", "pluriel_f"}
    IN  forms \subseteq DOMAIN passe \/ "singulier_m" \notin DOMAIN passe

\* the normaliser has run on a record whose participle holds a compound cell
ComposeNormalized ==
    /\ pc # "parsed"
    /\ "passe" \in DOMAIN ParticipeIn
    /\ "compose" \in DOMAIN ParticipeIn["passe"]
    /\ FormsComplete(ParticipeIn["passe"])

----------------------------------------------------------------------------
(* The crawler: main() of crawler.py with search_entry, download_conjugation *)
(* and parse_conjugation_page of core.py                                    *)

\* constants.py
CACHE_NOT_FOUND == "NOT_FOUND_SKIPPED"
CACHE_PARSE_FAILED == "PARSE_FAILED"
\* the cache file of a verb that was found: "<entry id>\n<nature>"
CACHE_FOUND == "ID_AND_NATURE"
NoFile == "NO_FILE"

\* what one POST of search_entry meets: a network error or a status other
\* than 200 ("fail"), a decoded answer without an exact verb match
\* ("nomatch"), a decoded answer with one ("match")
SearchResponses == {"fail", "nomatch", "match"}

\* (mutant of SearchFrom: time.sleep is called before every attempt, the
\* first included)
RECURSIVE SearchFrom_SleepFirst(_, _, _)
SearchFrom_SleepFirst(max_retry, responses, attempts) ==
    IF ~(attempts < max_retry) THEN [events |-> <<>>, found |-> FALSE]
    ELSE LET r    == responses[attempts + 1]
             step == <<"sleep", r>>
             rest == SearchFrom_SleepFirst(max_retry, responses, attempts + 1)
         IN  IF r = "fail"
             THEN [events |-> step \o rest.events, found |-> rest.found]
             ELSE [events |-> step, found |-> r = "match"]

\* the while loop of search_entry (core.py:75-111) from the given number of
\* attempts on, with gl.CONFIG_MAX_RETRY = max_retry and responses[i] what the
\* i-th POST meets.  events: the calls made in order, "sleep" for time.sleep
\* and the response kind for a POST; found: TRUE when (entry id, nature) is
\* returned, FALSE when None is
RECURSIVE SearchFrom(_, _, _)
SearchFrom(max_retry, responses, attempts) ==
    IF ~(attempts < max_retry) THEN [events |-> <<>>, found |-> FALSE]
    ELSE LET r    == responses[attempts + 1]
             step == (IF attempts > 0 THEN <<"sleep">> ELSE <<>>) \o <<r>>
             rest == SearchFrom(max_retry, responses, attempts + 1)
         IN  IF r = "fail"
             THEN [events |-> step \o rest.events, found |-> rest.found]
             ELSE [events |-> step, found |-> r = "match"]

\* search_entry of core.py
SearchEntry(max_retry, responses) == SearchFrom(max_retry, responses, 0)

\* DictionaryHTTPClient.search_entry of http_client.py, lines 117-158: the
\* for loop from the given attempt on ("fail" being a RequestException).  No
\* module of the program calls it.
RECURSIVE ClientSearchFrom(_, _, _)
ClientSearchFrom(max_retry, responses, attempt) ==
    IF attempt > max_retry THEN [events |-> <<>>, found |-> FALSE]
    ELSE LET r    == responses[attempt]
             step == (IF attempt > 1 THEN <<"sleep">> ELSE <<>>) \o <<r>>
             rest == ClientSearchFrom(max_retry, responses, attempt + 1)
         IN  IF r = "fail"
             THEN IF attempt = max_retry
                  THEN [events |-> step, found |-> FALSE]
                  ELSE [events |-> step \o rest.events, found |-> rest.found]
             ELSE [events |-> step, found |-> r = "match"]

ClientSearchEntry(max_retry, responses) == ClientSearchFrom(max_retry, responses, 1)

\* the documents the server hands out for a verb: with the div#<entry id> of
\* a conjugation page, or without it
CrawlDocs ==
    { [root |-> Some(Page(Some(VoiceAvoir), Absent, Absent, Absent, FALSE))],
      [root |-> Some(Page(Absent, Absent, Absent, Absent, FALSE))],
      [root |-> Some(Page(Absent, Absent, Absent, Some(VoicePronoBroken), FALSE))],
      [root |-> Absent] }

\* what download_conjugation meets: a failure, or a document it writes
Downloads == {Absent} \cup {Some(d) : d \in CrawlDocs}

CrawlVerbs == {v_parler, v_hair}

\* min_json.replace("  ", " ") on the text of one string (line 179): one pass
\* from the left over non-overlapping pairs of spaces
RECURSIVE CollapseSpaces(_)
CollapseSpaces(s) ==
    IF Len(s) < 2 THEN s
    ELSE IF s[1] = " " /\ s[2] = " "
         THEN <<" ">> \o CollapseSpaces(SubSeq(s, 3, Len(s)))
         ELSE <<s[1]>> \o CollapseSpaces(Tail(s))

\* line 179 on one string of the JSON text
ExportString(s) == Replace(CollapseSpaces(s), CurlyApostrophe, <<Apostrophe>>)

\* one tense object as json.dumps writes it: None becomes null, a string is
\* written out and rewritten by line 179
ExportTense(t) == [k \in DOMAIN t |-> IF t[k] = None THEN None ELSE ExportString(t[k])]

\* lines 178-181: the text written to ./output/parsed/<verb>.txt, as the
\* entry json.load reads back from it
ExportEntry(v, rec) ==
    [key |-> ExportString(v),
     rec |-> [k \in DOMAIN rec |->
                IF k = "h_aspire" THEN rec[k]
                ELSE [m \in DOMAIN rec[k] |->
                        [t \in DOMAIN rec[k][m] |-> ExportTense(rec[k][m][t])]]]]

(* -- extensions/db.py -- *)

\* voice_name_table_map, lines 44-48
VoiceNameTableMap ==
    { <<"voix_active_avoir", "ACTIVE_AVOIR">>,
      <<"voix_active_&ecirc;tre", "ACTIVE_ETRE">>,
      <<"voix_prono", "PRONOMINAL">> }

\* lines 74-97: <<column, key of the mood, key of the tense>>
DbColumns ==
    { <<"ind_present",          "indicatif",    "pr&eacute;sent">>,
      <<"ind_passe_simple",     "indicatif",    "pass&eacute;_simple">>,
      <<"ind_futur_simple",     "indicatif",    "futur_simple">>,
      <<"ind_passe_compose",    "indicatif",    "pass&eacute;_compos&eacute;">>,
      <<"ind_plus_que_parfait", "indicatif",    "plus_que_parfait">>,
      <<"ind_passe_anterieur",  "indicatif",    "pass&eacute;_ant&eacute;rieur">>,
      <<"ind_futur_anterieur",  "indicatif",    "futur_ant&eacute;rieur">>,
      <<"ind_imparfait",        "indicatif",    "imparfait">>,
      <<"sub_present",          "subjonctif",   "pr&eacute;sent">>,
      <<"sub_passe",            "subjonctif",   "pass&eacute;">>,
      <<"sub_imparfait",        "subjonctif",   "imparfait">>,
      <<"sub_plus_que_parfait", "subjonctif",   "plus_que_parfait">>,
      <<"con_present",          "conditionnel", "pr&eacute;sent">>,
      <<"con_passe",            "conditionnel", "pass&eacute;">>,
      <<"imp_present",          "imp&eacute;ratif", "pr&eacute;sent">>,
      <<"imp_passe",            "imp&eacute;ratif", "pass&eacute;">> }

\* lines 107-124: the forms of one tense joined by semicolons, a missing or
\* null form left empty.  The quoting of line 124 is undone by SQLite, which
\* stores cell_str.
DbCell(column, pronoun_dict) ==
    LET pronouns == IF column \in {"imp_present", "imp_passe"}
                    THEN <<"tu", "nous", "vous">>
                    ELSE <<"je", "tu", "il", "nous", "vous", "ils">>
        conjs == [i \in 1..Len(pronouns) |->
                    IF pronouns[i] \in DOMAIN pronoun_dict
                    THEN IF pronoun_dict[pronouns[i]] = None THEN <<>>
                         ELSE pronoun_dict[pronouns[i]]
                    ELSE <<>>]
    IN  Join(conjs, ";")

\* lines 55-124: the row of one verb in the table of one voice; None is NULL
DbRow(verb_key, voice_moods) ==
    [column \in {"verb"} \cup {c[1] : c \in DbColumns} |->
        IF column = "verb" THEN verb_key
        ELSE LET c == CHOOSE x \in DbColumns : x[1] = column
             IN  IF c[2] \in DOMAIN voice_moods /\ c[3] \in DOMAIN voice_moods[c[2]]
                 THEN DbCell(column, voice_moods[c[2]][c[3]])
                 ELSE None]

\* generate_sqlite_db: the rows of each table
GenerateSqliteDb(loaded_json) ==
    [table \in {m[2] : m \in VoiceNameTableMap} |->
        { DbRow(x[1], loaded_json[x[1]][x[2][1]]) :
            x \in { y \in (DOMAIN loaded_json) \X VoiceNameTableMap :
                      /\ y[2][2] = table
                      /\ y[2][1] \in DOMAIN loaded_json[y[1]]
                      /\ DOMAIN loaded_json[y[1]][y[2][1]] # {} } }]

PageFalse == [result |-> "false", out |-> None]

\* lines 172-183 of parse_conjugation_page, by what parse_conjugation_table
\* did: raised, returned None, or returned a record
PageOutcome(v, p) ==
    IF p.kind = "raise" THEN [result |-> "raise", out |-> None]
    ELSE IF p.kind = "none" THEN PageFalse
    ELSE [result |-> "true", out |-> ExportEntry(v, p.rec)]

\* parse_conjugation_page (core.py:162-183): result "false" (the file cannot
\* be read, the div is missing, or no conjugation data was found), "true"
\* (the parsed file is written with the content out), or "raise":
\* parse_conjugation_table is called outside the try block
ParseConjugationPage(v, file) ==
    IF ~Has(file) THEN PageFalse
    ELSE IF ~Has(Get(file).root) THEN PageFalse
    ELSE PageOutcome(v, ParseConjugationTable(Get(Get(file).root), v))

FileOf(files, v) == IF v \in DOMAIN files THEN files[v] ELSE Absent
CacheOf(v) == IF v \in DOMAIN cacheTxt THEN cacheTxt[v] ELSE NoFile

\* line 103: the verb has a parsed file and the run honours it
AlreadyParsed(v) == ~ignoreCache /\ v \in DOMAIN parsedFile

\* line 108: the verb has a cache file and the run honours it
Cached(v) == ~ignoreCache /\ CacheOf(v) # NoFile

\* (mutant of SkipContents: a verb whose parse failed is fetched again)
SkipContents_NotFoundOnly == {CACHE_NOT_FOUND}

\* line 112: the contents of the cache file that end the pass
SkipContents == {CACHE_NOT_FOUND, CACHE_PARSE_FAILED}

\* (mutant of SearchedCache: the cache file is written only for a match)
SearchedCache_OnlyFound(v, found) ==
    IF found THEN Put(cacheTxt, v, CACHE_FOUND) ELSE cacheTxt

\* lines 120-128: the cache file after search_entry has returned
SearchedCache(v, found) ==
    Put(cacheTxt, v, IF found THEN CACHE_FOUND ELSE CACHE_NOT_FOUND)

\* one pass of the loop of main(), lines 97-143, as the state keeps it: the
\* verb, whether its parsed file and what cache content were there when the
\* pass began, whether the cache file was looked up, the search made if any,
\* whether a download was attempted, and what parse_conjugation_page
\* returned ("none" when it was not called)
Pass(v, lookup, search, download, page_result) ==
    [verb |-> v, parsedBefore |-> v \in DOMAIN parsedFile, cacheBefore |-> CacheOf(v),
     lookup |-> lookup, search |-> search, download |-> download,
     parse |-> page_result]

InitCrawl ==
    /\ verb = <<>>
    /\ page = Absent
    /\ pc = "idle"
    /\ parsed = Unset
    /\ normalized = Unset
    /\ reformed = Unset
    /\ renormalized = Unset
    /\ infFile \in SeqsUpTo(CrawlVerbs, MaxVerbs) \ {<<>>}
    /\ ignoreCache \in BOOLEAN
    /\ todo = infFile
    /\ cacheTxt = EmptyDict
    /\ htmlFile = EmptyDict
    /\ parsedFile = EmptyDict
    /\ prog = "running"
    /\ maxRetry \in 0..MaxRetry
    /\ last = Unset
    /\ db = Absent
    /\ gen = Unset

\* lines 103-105: the verb already has a parsed file
SkipParsed ==
    /\ prog = "running" /\ todo # <<>>
    /\ AlreadyParsed(Head(todo))
    /\ todo' = Tail(todo)
    /\ last' = Pass(Head(todo), FALSE, Absent, FALSE, "none")
    /\ UNCHANGED <<pipeVars, gen, infFile, ignoreCache, cacheTxt, htmlFile, parsedFile,
                   prog, maxRetry, db>>

\* lines 108-113: the cache file says the verb was not found or failed
SkipCached ==
    /\ prog = "running" /\ todo # <<>>
    /\ ~AlreadyParsed(Head(todo))
    /\ Cached(Head(todo))
    /\ CacheOf(Head(todo)) \in SkipContents
    /\ todo' = Tail(todo)
    /\ last' = Pass(Head(todo), TRUE, Absent, FALSE, "none")
    /\ UNCHANGED <<pipeVars, gen, infFile, ignoreCache, cacheTxt, htmlFile, parsedFile,
                   prog, maxRetry, db>>

\* the outcomes of search_entry under the retry limit of the run
SearchOutcomes ==
    {SearchEntry(maxRetry, responses) : responses \in [1..maxRetry -> SearchResponses]}

\* lines 117-124: the search returns None
SearchNotFound ==
    /\ prog = "running" /\ todo # <<>>
    /\ ~AlreadyParsed(Head(todo))
    /\ ~Cached(Head(todo))
    /\ \E search \in SearchOutcomes :
          /\ ~search.found
          /\ cacheTxt' = SearchedCache(Head(todo), search.found)
          /\ last' = Pass(Head(todo), ~ignoreCache, Some(search), FALSE, "none")
    /\ todo' = Tail(todo)
    /\ UNCHANGED <<pipeVars, gen, infFile, ignoreCache, htmlFile, parsedFile, prog, maxRetry,
                   db>>

\* lines 114-143 for a verb whose entry id is cached or found: the cache
\* file is written, the page downloaded unless cached, and parsed
FetchAndParse ==
    /\ prog = "running" /\ todo # <<>>
    /\ ~AlreadyParsed(Head(todo))
    /\ Cached(Head(todo)) => CacheOf(Head(todo)) \notin SkipContents
    /\ \E v \in {Head(todo)} :
       \E search \in IF Cached(v) THEN {Absent}
                     ELSE {Some(o) : o \in {x \in SearchOutcomes : x.found}} :
       \E searched \in {IF Has(search) THEN SearchedCache(v, TRUE) ELSE cacheTxt} :
       \E dl \in Downloads :
       \E download \in {~(~ignoreCache /\ Has(FileOf(htmlFile, v)))} :
       \E html \in {IF download /\ Has(dl) THEN Put(htmlFile, v, dl) ELSE htmlFile} :
       \E page_result \in {ParseConjugationPage(v, FileOf(html, v))} :
       \E result \in {page_result.result} :
          /\ htmlFile' = html
          /\ cacheTxt' = IF result = "false"
                         THEN Put(searched, v, CACHE_PARSE_FAILED)
                         ELSE searched
          /\ parsedFile' = IF result = "true"
                           THEN Put(parsedFile, v, page_result.out)
                           ELSE parsedFile
          /\ prog' = IF result = "raise" THEN "crashed" ELSE prog
          /\ todo' = IF result = "raise" THEN todo ELSE Tail(todo)
          /\ last' = Pass(v, ~ignoreCache, search, download, result)
    /\ UNCHANGED <<pipeVars, gen, infFile, ignoreCache, maxRetry, db>>

\* lines 146-160: verbs.min.json, the parsed files merged and loaded again
MergedJson ==
    [k \in {parsedFile[v].key : v \in DOMAIN parsedFile} |->
        parsedFile[CHOOSE v \in DOMAIN parsedFile : parsedFile[v].key = k].rec]

\* the loop is over: lines 145-169 merge the parsed files and, under
\* -E:GEN-SQLITE3, write the database from the merged data
Finish ==
    /\ prog = "running" /\ todo = <<>>
    /\ prog' = "done"
    /\ \E EXTENSION_GEN_SQLITE3 \in BOOLEAN :
          db' = IF EXTENSION_GEN_SQLITE3 THEN Some(GenerateSqliteDb(MergedJson)) ELSE db
    /\ UNCHANGED <<pipeVars, gen, infFile, ignoreCache, todo, cacheTxt, htmlFile, parsedFile,
                   maxRetry, last>>

\* the program is started again, with its own options, on the files the
\* earlier runs left under ./output
NewRun ==
    /\ prog \in {"done", "crashed"}
    /\ prog' = "running"
    /\ todo' = infFile
    /\ ignoreCache' \in BOOLEAN
    /\ maxRetry' \in 0..MaxRetry
    /\ last' = Unset
    /\ UNCHANGED <<pipeVars, gen, infFile, cacheTxt, htmlFile, parsedFile, db>>

NextCrawl == SkipParsed \/ SkipCached \/ SearchNotFound \/ FetchAndParse \/ Finish

SpecCrawl == InitCrawl /\ [][NextCrawl]_vars

\* the search the last pass made, and the positions of its POSTs
LastEvents == Get(last.search).events
LastPosts == {i \in 1..Len(LastEvents) : LastEvents[i] # "sleep"}

\* C26: for one verb search_entry issues at most CONFIG_MAX_RETRY POSTs,
\* sleeps before every attempt but the first (and nowhere else), stops at the
\* first attempt whose response decodes, match or not, returns None once all
\* attempts have failed, and with CONFIG_MAX_RETRY = 0 issues no request;
\* the search_entry of http_client.py makes the same calls with the same
\* result.
C26_SearchAttempts ==
    /\ (last # Unset /\ Has(last.search)) =>
          /\ Cardinality(LastPosts) <= maxRetry
          /\ \A i \in LastPosts :
                /\ (\A j \in LastPosts : i <= j) => i = 1
                /\ (\E j \in LastPosts : j < i) => LastEvents[i - 1] = "sleep"
                /\ LastEvents[i] # "fail" => i = Len(LastEvents)
          /\ \A i \in (1..Len(LastEvents)) \ LastPosts :
                i > 1 /\ i < Len(LastEvents) /\ (i - 1) \in LastPosts /\ (i + 1) \in LastPosts
          /\ Get(last.search).found =
                (LastEvents # <<>> /\ LastEvents[Len(LastEvents)] = "match")
          /\ (\A i \in LastPosts : LastEvents[i] = "fail") =>
                /\ ~Get(last.search).found
                /\ Cardinality(LastPosts) = maxRetry
          /\ maxRetry = 0 => LastEvents = <<>>
    /\ \A responses \in [1..maxRetry -> SearchResponses] :
          ClientSearchEntry(maxRetry, responses) = SearchEntry(maxRetry, responses)

\* a search whose first attempt failed, which slept, and whose second attempt
\* got an answer without a match
C26_Witness ==
    /\ last # Unset
    /\ Has(last.search)
    /\ maxRetry = 2
    /\ LastEvents = <<"fail", "sleep", "nomatch">>
    /\ ~Get(last.search).found

NextRerun == NextCrawl \/ NewRun

\* an infinitives.txt of one line
InitRerun == InitCrawl /\ Len(infFile) = 1

SpecRerun == InitRerun /\ [][NextRerun]_vars

\* C10: a parsing failure for one verb is confined to that verb: the caller
\* catches it, records it as a processing failure, and the run goes on with
\* the next verb; nothing raised inside parse_conjugation_table ends the
\* program.
C10_FailureConfined ==
    /\ prog # "crashed"
    /\ \A v \in DOMAIN htmlFile :
          (ParseConjugationPage(v, htmlFile[v]).result = "raise" /\ ~ignoreCache)
             => CacheOf(v) = CACHE_PARSE_FAILED

\* the tense objects of an exported entry, as <<voice, mood, tense>>
ExportedTenses(entry) ==
    { <<k, m, t>> \in UNION { UNION { {<<k, m, t>> : t \in DOMAIN entry.rec[k][m]}
                                       : m \in DOMAIN entry.rec[k] }
                              : k \in (DOMAIN entry.rec) \ {"h_aspire"} } : TRUE }

\* C12: in every tense object of the record the program exports (the parsed
\* file parse_conjugation_page writes), no person key maps to null, and no
\* value holds a comma.
C12_ExportHasNoNull ==
    \A v \in DOMAIN parsedFile :
       \A path \in ExportedTenses(parsedFile[v]) :
          LET t == parsedFile[v].rec[path[1]][path[2]][path[3]]
          IN  \A person \in DOMAIN t :
                 /\ t[person] # None
                 /\ \A i \in 1..Len(t[person]) : t[person][i] # ","

\* C28: in a run with ignore-cache off, a verb whose cache file holds
\* NOT_FOUND_SKIPPED or PARSE_FAILED when its pass begins is neither searched
\* nor downloaded nor parsed, whichever run wrote the file; a verb that has a
\* parsed file is skipped before the cache file is looked up; and a parse
\* that fails leaves PARSE_FAILED in the cache file, in place of the entry id
\* and nature.
C28_SkippedForGood ==
    last # Unset =>
        /\ (~ignoreCache /\ last.cacheBefore \in {CACHE_NOT_FOUND, CACHE_PARSE_FAILED}) =>
              /\ ~Has(last.search)
              /\ ~last.download
              /\ last.parse = "none"
        /\ (~ignoreCache /\ last.parsedBefore) =>
              /\ ~last.lookup
              /\ ~Has(last.search)
              /\ ~last.download
              /\ last.parse = "none"
        /\ last.parse = "false" => CacheOf(last.verb) = CACHE_PARSE_FAILED

\* a later run with ignore-cache off meets the PARSE_FAILED an earlier run
\* left (infinitives.txt names the verb once) and passes the verb by
C28_Witness ==
    /\ last # Unset
    /\ ~ignoreCache
    /\ Len(infFile) = 1
    /\ last.cacheBefore = CACHE_PARSE_FAILED
    /\ last.lookup
    /\ ~Has(last.search)
    /\ last.parse = "none"
    /\ CacheOf(last.verb) = CACHE_PARSE_FAILED

\* the table and the column the claim expects for a voice, a mood and a
\* tense key of the parser
TableOfVoice(voice_key) ==
    CASE voice_key = "voix_active_avoir" -> "ACTIVE_AVOIR"
      [] voice_key = "voix_active_etre"  -> "ACTIVE_ETRE"
      [] voice_key = "voix_prono"        -> "PRONOMINAL"

ColumnOfTense(mood_key, tense_key) ==
    (CASE mood_key = "indicatif"    -> "ind_"
       [] mood_key = "subjonctif"   -> "sub_"
       [] mood_key = "conditionnel" -> "con_"
       [] mood_key = "imperatif"    -> "imp_") \o tense_key

\* C29: the SQLite exporter and the parser agree on keys: for every voice,
\* mood and tense key the parser emitted with data, the database written at
\* the end of the run has a row for the verb in the table of that voice, and
\* the column of that mood and tense is not NULL.
C29_ExporterKeysAgree ==
    (prog = "done" /\ Has(db)) =>
        \A k \in DOMAIN MergedJson :
        \A voice_key \in (DOMAIN MergedJson[k]) \ {"h_aspire"} :
        \A mood_key \in DOMAIN MergedJson[k][voice_key] :
        \A tense_key \in DOMAIN MergedJson[k][voice_key][mood_key] :
            (\E person \in DOMAIN MergedJson[k][voice_key][mood_key][tense_key] :
                MergedJson[k][voice_key][mood_key][tense_key][person] # None)
            => \E row \in Get(db)[TableOfVoice(voice_key)] :
                  /\ row["verb"] = k
                  /\ row[ColumnOfTense(mood_key, tense_key)] # None

----------------------------------------------------------------------------
(* -E:GEN-INFINITIVES: gen_infs_main() of extensions/gen_infinitives.py *)

\* line 19: the letters of the counters, in the order the loop walks them
\* (the code has A..Z; the model keeps the first MaxLetters of them)
Letters == SubSeq(<<"A", "B", "C", "D">>, 1, MaxLetters)

LetterSet == {Letters[i] : i \in 1..Len(Letters)}

LetterIndex(letter) == CHOOSE i \in 1..Len(Letters) : Letters[i] = letter

\* what one GET of an entry page can come to:
\*   "error"     requests.get raises                        (lines 61-63)
\*   "status"    a status other than 200 and 404            (lines 54-56)
\*   "404"       the entry does not exist                   (lines 57-60)
\*   "nonverb"   200, no entry div, no category, or no verb (lines 73-82)
\*   "verb"      200, a verb entry with its heading         (lines 83-93)
\*   "noheading" 200, a verb entry without div.s_Entree_haut or its h1:
\*               line 83 raises AttributeError outside the try
GenResponses == {"error", "status", "404", "nonverb", "verb", "noheading"}

\* line 65: the counters are saved at every hundredth entry
CacheEvery == 100

\* lines 45 and 57-60: the letter's counter after the request that follows
\* counter has been answered (a failed request keeps the increment)
CounterAfter_RetryFailed(counter, response) ==
    IF response = "404" THEN -1
    ELSE IF response \in {"error", "status"} THEN counter
    ELSE counter + 1

CounterAfter(counter, response) ==
    IF response = "404" THEN -1 ELSE counter + 1

\* lines 19-23: the counters a run starts from: all zero without
\* counters.json, else what an earlier run saved (lines 65-69, 90-93): the
\* letters it left at -1, the letter it was at, the letters to come at 0
LoadedCounters ==
    { [letter \in LetterSet |-> 0] }
    \cup
    { [letter \in LetterSet |->
          IF LetterIndex(letter) < k THEN -1
          ELSE IF LetterIndex(letter) = k THEN n ELSE 0] :
        k \in 1..Len(Letters), n \in 1..MaxEntries }

\* the state of the procedure: the counters loaded and as they are now, the
\* letter the for loop is at, whether the while loop of that letter has been
\* entered, the requests made (letter, entry number, whether it got a 404),
\* the last response, the entries appended to gen_infs/infinitives.txt and
\* the content of gen_infs/counters.json
GenStart(loaded) ==
    [kind |-> "gen", prog |-> "running", pc |-> "for", at |-> 1,
     loaded |-> loaded, counters |-> loaded, log |-> <<>>, response |-> "none",
     found |-> <<>>,
     cache |-> IF loaded = [letter \in LetterSet |-> 0] THEN Absent ELSE Some(loaded)]

InitGenInfs ==
    /\ verb = <<>>
    /\ page = Absent
    /\ pc = "idle"
    /\ parsed = Unset
    /\ normalized = Unset
    /\ reformed = Unset
    /\ renormalized = Unset
    /\ InitCrawlIdle
    /\ gen \in {GenStart(loaded) : loaded \in LoadedCounters}

GenRunning == gen.kind = "gen" /\ gen.prog = "running" /\ gen.at <= Len(Letters)

\* lines 40-42: a letter whose counter is already -1 is passed over
GenSkipLetter ==
    /\ GenRunning
    /\ gen.pc = "for"
    /\ gen.counters[Letters[gen.at]] = -1
    /\ gen' = [gen EXCEPT !.at = @ + 1]
    /\ UNCHANGED <<pipeVars, mainVars>>

\* lines 44-93: one turn of the while loop. An entry number above MaxEntries
\* is answered by 404.
GenRequest ==
    /\ GenRunning
    /\ gen.counters[Letters[gen.at]] # -1
    /\ \E response \in GenResponses :
         LET letter == Letters[gen.at]
             entry == gen.counters[letter] + 1
             after == [gen.counters EXCEPT
                          ![letter] = CounterAfter(gen.counters[letter], response)]
             parsed_page == response \notin {"error", "status"}
             saved == \/ parsed_page /\ after[letter] % CacheEvery = 0
                      \/ response = "verb"
         IN  /\ entry > MaxEntries => response = "404"
             /\ gen' = [gen EXCEPT
                  !.pc = "while",
                  !.counters = after,
                  !.log = Append(@, <<letter, entry, response = "404">>),
                  !.response = response,
                  !.found = IF response = "verb" THEN Append(@, <<letter, entry>>) ELSE @,
                  !.cache = IF saved THEN Some(after) ELSE @,
                  !.prog = IF response = "noheading" THEN "crashed" ELSE @]
    /\ UNCHANGED <<pipeVars, mainVars>>

\* line 44: the while loop ends once the counter is -1
GenLeaveLetter ==
    /\ GenRunning
    /\ gen.pc = "while"
    /\ gen.counters[Letters[gen.at]] = -1
    /\ gen' = [gen EXCEPT !.at = @ + 1, !.pc = "for"]
    /\ UNCHANGED <<pipeVars, mainVars>>

\* line 38: the for loop has no letter left and the procedure returns
GenReturn ==
    /\ gen.kind = "gen"
    /\ gen.prog = "running"
    /\ gen.at > Len(Letters)
    /\ gen' = [gen EXCEPT !.prog = "done"]
    /\ UNCHANGED <<pipeVars, mainVars>>

NextGenInfs == GenSkipLetter \/ GenRequest \/ GenLeaveLetter \/ GenReturn

\* the procedure is one sequential loop: a step of its own control flow
\* that can be taken is taken; when a request is answered is left open
GenProceeds == WF_vars(GenSkipLetter \/ GenLeaveLetter \/ GenReturn)

SpecGenInfs == InitGenInfs /\ [][NextGenInfs]_vars /\ GenProceeds

\* the requests made for one letter, in order
RequestsOf(letter) == SelectSeq(gen.log, LAMBDA r : r[1] = letter)

Got404(letter) == \E i \in 1..Len(gen.log) : gen.log[i][1] = letter /\ gen.log[i][3]

\* the letters are requested in the order of the counters
GenInOrder ==
    /\ \A i, j \in 1..Len(gen.log) :
          i < j => LetterIndex(gen.log[i][1]) <= LetterIndex(gen.log[j][1])
    /\ \A i \in 1..Len(gen.log) : LetterIndex(gen.log[i][1]) <= gen.at

\* a letter is left only with its counter at -1, and a counter is -1 only
\* when it was loaded so or the letter got a 404
GenLeftOn404 ==
    /\ \A k \in 1..Len(Letters) : k < gen.at => gen.counters[Letters[k]] = -1
    /\ \A letter \in LetterSet :
          gen.counters[letter] = -1
              <=> (gen.loaded[letter] = -1 \/ Got404(letter))

\* the k-th request of a letter asks for the entry k above the loaded
\* counter, whatever the earlier requests came to, and the counter is the
\* number of the last entry asked for until the 404
GenOnePerRequest ==
    \A letter \in LetterSet :
       LET requests == RequestsOf(letter)
       IN  /\ \A k \in 1..Len(requests) :
                requests[k][2] = gen.loaded[letter] + k
           /\ gen.counters[letter] \in {-1, gen.loaded[letter] + Len(requests)}

\* nothing is requested for a letter loaded at -1, nor after its 404
GenNeverAfterMinusOne ==
    \A letter \in LetterSet :
       LET requests == RequestsOf(letter)
       IN  /\ gen.loaded[letter] = -1 => requests = <<>>
           /\ \A k \in 1..Len(requests) : requests[k][3] => k = Len(requests)

GenAllMinusOne == \A letter \in LetterSet : gen.counters[letter] = -1

\* claim C30: gen_infs_main requests the letters in order, moves past a
\* letter only with its counter at -1, which a counter becomes only on a
\* 404; every request, failed ones too, raises the counter by one, so no
\* entry is asked for twice; a letter at -1 is never requested; and when
\* every letter has got its 404, in this run or a cached one, the procedure
\* returns with all counters at -1
C30_CountersAndTermination ==
    /\ [](GenInOrder /\ GenLeftOn404 /\ GenOnePerRequest /\ GenNeverAfterMinusOne)
    /\ [](gen.prog = "done" => GenAllMinusOne)
    /\ (\A letter \in LetterSet : <>(gen.loaded[letter] = -1 \/ Got404(letter)))
          => <>(gen.prog = "done" /\ GenAllMinusOne)

\* a run that returned after a failed request, a verb entry and the 404 of
\* every letter it had to walk
C30_Witness ==
    /\ gen.prog = "done"
    /\ GenAllMinusOne
    /\ \A letter \in LetterSet : Got404(letter)
    /\ gen.found # <<>>
    /\ Len(gen.log) > Len(gen.found) + Len(Letters)

====
